---- MODULE Spec2Model ----
(***************************************************************************)
(* Clip selection and merge back end (AI-clip-backend1).                   *)
(*                                                                         *)
(* Times are held in milliseconds (integers): 11.04 s is 11040.  The       *)
(* sample values are chosen so that the double arithmetic of the source    *)
(* (a - b, d * 0.8, toFixed(2)) is exact on them; a value lying exactly on *)
(* a comparison threshold is used only where the double result and the     *)
(* decimal result agree.                                                   *)
(*                                                                         *)
(* Several source files hold a copy of the same function.  The copies are  *)
(* told apart by the file they live in:                                    *)
(*   "part_005"        src/unnamed/part_005 (lines 1-331)                  *)
(*   "initialVersion"  src/controllers/initialVersion/getTranscript.js     *)
(*   "clipsController" src/controllers/clipsController/generateClips.js    *)
(***************************************************************************)
EXTENDS Integers, Sequences, FiniteSets, TLC

VARIABLES
    \* ---- createTokenAwareChunks (one run of its for loop) ----
    transcripts,         \* the input array of segments
    maxTokensPerChunk,   \* the second parameter
    i,                   \* number of loop iterations done (the loop index)
    chunks,              \* chunks closed so far
    currentChunk,        \* the open chunk
    currentChunkTokens,  \* token cost of the open chunk
    chunkPc,             \* "idle" | "loop" | "done"
    \* ---- validateClips / validate (one call) ----
    impl,                \* the source file whose copy of the code runs
    clips,               \* the parsed clip list
    videoDuration,       \* ms
    explicitDuration,    \* ms, or Null
    isEndPart,           \* the end-anchor flag
    verdict,             \* "pending", "ok", or the error thrown
    \* ---- callOpenAIWithRetry (one call of it) ----
    retries,             \* the local counter
    answers,             \* what the service answered to each call so far
    sleeps,              \* the delays slept so far, ms
    advertised,          \* the retry-after-ms header of each error slept on, Null when absent
    thrownError,         \* the error the function threw, or "none"
    retryPc,             \* "idle" | "call" | "sleep" | "returned" | "thrown"
    \* ---- generateClips, the chunked handler (one request) ----
    \* (impl, clips, videoDuration, explicitDuration, isEndPart and verdict
    \*  above are its locals too)
    body,                \* req.body: transcripts and customPrompt
    transcriptChunks,    \* the chunks of the request
    chunkIndex,          \* the loop index i of the chunk loop
    potentialSegments,   \* the rolling buffer of candidates
    parsedSoFar,         \* every candidate parsed from a non-final chunk so far, in order
    attempt,             \* the attempt counter of the final chunk
    calls,               \* the calls of callOpenAIWithRetry so far: chunk and temperature
    received,            \* the kind of each response received so far
    clipSource,          \* where the returned clips come from: "none" | "model" | "fallback"
    cause,               \* what raised the error behind a 500: "none" | "service" | "TypeError"
    res,                 \* the HTTP response sent, status 0 while none is
    genPc,               \* "idle" | "start" | "call" | "retryCall" | "done"
    \* ---- resolveVideoPath (one call) ----
    filePath,            \* the stored reference
    disk,                \* the paths that exist on the local filesystem
    candidateIndex,      \* position of the for loop in possiblePaths
    resolvedPath,        \* the path returned, NoPath while none is
    triedPaths,          \* the paths listed by the error thrown, <<>> while none is
    pathPc,              \* "idle" | "loop" | "returned" | "thrown"
    \* ---- videoMergeClips (one merge job) ----
    \* (disk above is the filesystem its calls of resolveVideoPath see)
    mergeImpl,           \* the source file whose copy runs: "videoMergeClips.js" | "part_008"
    mergeRequest,        \* the clips argument
    tempDir,             \* whether the job's temp directory exists
    outputFile,          \* whether the file at outputPath exists
    thumbFile,           \* whether the file at thumbPath exists
    spawned,             \* how many times the ffmpeg subprocess was started
    ffmpeg,              \* "none" | "running" | "ended" | "failed" | "killed"
    timeout,             \* the 30 minute timer: "unset" | "armed" | "cleared" | "expired"
    lookupOrder,         \* the order in which the source-record lookups completed
    clipDetails,         \* the resolved clips
    thumbnailUrl,        \* the local of that name, "unset" before the thumbnail step
    totalDuration,       \* the local of that name
    produced,            \* size and true duration of the file the subprocess wrote
    probed,              \* whether ffprobe has measured the produced file
    uploaded,            \* the objects put into durable storage, in order
    saved,               \* the FinalVideo records saved, in order
    outcome,             \* the promise of videoMergeClips: [state, reason]
    cancelRequested,     \* whether the caller has asked for the running job to be cancelled
    mergePc,             \* position of the job
    \* ---- videoMergeClips (concurrent merge jobs sharing a disk and a bucket) ----
    env,                 \* process.env: [TEMP_DIR, OUTPUT_DIR]
    jobs,                \* per job: [pc, jobId, user, owns, keys]
    jobDisk,             \* the directories and files that exist
    bucket               \* the objects in storage: [key, by]

chunkVars == <<transcripts, maxTokensPerChunk, i, chunks, currentChunk,
               currentChunkTokens, chunkPc>>

validateVars == <<impl, clips, videoDuration, explicitDuration, isEndPart, verdict>>

retryVars == <<retries, answers, sleeps, advertised, thrownError, retryPc>>

genVars == <<body, transcriptChunks, chunkIndex, potentialSegments, parsedSoFar, attempt, calls,
             received, clipSource, cause, res, genPc>>

pathVars == <<filePath, disk, candidateIndex, resolvedPath, triedPaths, pathPc>>

mergeVars == <<mergeImpl, mergeRequest, lookupOrder, thumbnailUrl, cancelRequested, tempDir, outputFile, thumbFile, spawned, ffmpeg,
               timeout, clipDetails, totalDuration, produced, probed, uploaded, saved,
               outcome, mergePc>>

jobVars == <<env, jobs, jobDisk, bucket>>

vars == <<chunkVars, validateVars, retryVars, genVars, pathVars, mergeVars, jobVars>>

-----------------------------------------------------------------------------
(* Bounds of the model *)

\* longest segment array given to createTokenAwareChunks
MaxSegments == 3

\* longest clip list given to the validators
MaxClips == 2

-----------------------------------------------------------------------------
(* Program constants *)

reservedTokens == 5000
DefaultMaxTokensPerChunk == 40000

\* 0.05 s, the tolerance of the duration check
DurationToleranceMs == 50

\* callOpenAIWithRetry(messages, model, temperature, maxRetries = 3); no caller
\* passes a fourth argument
maxRetries == 3

-----------------------------------------------------------------------------
(* Helpers *)

\* `let explicitDuration = null`: no duration was found in the prompt.  A
\* parsed duration is never negative.
Null == -1

\* JavaScript truthiness of explicitDuration: null and 0 are falsy.
Truthy(d) == d # Null /\ d # 0

Abs(x) == IF x < 0 THEN -x ELSE x

RECURSIVE Flatten(_)
Flatten(ss) == IF ss = <<>> THEN <<>> ELSE Head(ss) \o Flatten(Tail(ss))

Range(s) == {s[k] : k \in 1..Len(s)}

-----------------------------------------------------------------------------
(* The parts of the program that a specification does not run stay idle *)

ChunkIdle ==
    /\ transcripts = <<>>
    /\ maxTokensPerChunk = DefaultMaxTokensPerChunk
    /\ i = 0
    /\ chunks = <<>>
    /\ currentChunk = <<>>
    /\ currentChunkTokens = 0
    /\ chunkPc = "idle"

ValidateIdle ==
    /\ impl = "part_005"
    /\ clips = <<>>
    /\ videoDuration = 0
    /\ explicitDuration = Null
    /\ isEndPart = FALSE
    /\ verdict = "idle"

RetryIdle ==
    /\ retries = 0
    /\ answers = <<>>
    /\ sleeps = <<>>
    /\ advertised = <<>>
    /\ thrownError = "none"
    /\ retryPc = "idle"

NoResponse == [status |-> 0, clips |-> <<>>, message |-> "none"]

GenIdle ==
    /\ body = [transcripts |-> <<>>, customPrompt |-> "none"]
    /\ transcriptChunks = <<>>
    /\ chunkIndex = 0
    /\ potentialSegments = <<>>
    /\ parsedSoFar = <<>>
    /\ attempt = 0
    /\ calls = <<>>
    /\ received = <<>>
    /\ clipSource = "none"
    /\ cause = "none"
    /\ res = NoResponse
    /\ genPc = "idle"

\* a path is [abs, parts]; NoPath stands for "no path"
NoPath == [abs |-> FALSE, parts |-> <<>>]

PathIdle ==
    /\ filePath = NoPath
    /\ disk = {}
    /\ candidateIndex = 0
    /\ resolvedPath = NoPath
    /\ triedPaths = <<>>
    /\ pathPc = "idle"

\* a JavaScript value that arithmetic has produced or that a field holds: a
\* number (ms), NaN, or undefined
Number(ms) == [kind |-> "number", ms |-> ms]
NaN == [kind |-> "NaN", ms |-> 0]
Undefined == [kind |-> "undefined", ms |-> 0]

Pending == [state |-> "pending", reason |-> "none"]

MergeIdle ==
    /\ mergeImpl = "videoMergeClips.js"
    /\ mergeRequest = <<>>
    /\ tempDir = FALSE
    /\ outputFile = FALSE
    /\ thumbFile = FALSE
    /\ spawned = 0
    /\ ffmpeg = "none"
    /\ timeout = "unset"
    /\ lookupOrder = <<>>
    /\ clipDetails = <<>>
    /\ thumbnailUrl = "unset"
    /\ totalDuration = Number(0)
    /\ produced = [size |-> "none", duration |-> Undefined]
    /\ probed = FALSE
    /\ uploaded = <<>>
    /\ saved = <<>>
    /\ outcome = Pending
    /\ cancelRequested = FALSE
    /\ mergePc = "idle"

MaxJobs == 2

Jobs == 1..MaxJobs

NoJob == [pc |-> "idle", jobId |-> "none", user |-> "none", owns |-> {}, keys |-> {}]

JobsIdle ==
    /\ env = [TEMP_DIR |-> "undefined", OUTPUT_DIR |-> "undefined"]
    /\ jobs = [j \in Jobs |-> NoJob]
    /\ jobDisk = {}
    /\ bucket = {}

-----------------------------------------------------------------------------
(* createTokenAwareChunks *)

\* JSON.stringify(transcript, null, 2).length: the serialized length of a
\* segment is carried by the segment itself.
JSONLength(transcript) == transcript.len

\* Math.ceil(text.length / 4)
countTokens(textLength) == (textLength + 3) \div 4

effectiveMaxTokens(maxTokens) == maxTokens - reservedTokens

\* serialized lengths of the sample segments: 1, 2, 3, 5 and 35001 tokens
SegmentLengths == {4, 7, 12, 18, 140001}

\* ceilings handed to the function: the default, and ceilings at and below
\* the reserved 5000 (effective ceiling 6, 3 and -1000)
MaxTokensChoices == {DefaultMaxTokensPerChunk, 5006, 5003, 4000}

\* ForBody with the open chunk discarded, not closed, before an oversize segment
ForBody_DropsOpenChunk(st, transcript, maxTokens) ==
    LET transcriptTokens == countTokens(JSONLength(transcript))
        eff == effectiveMaxTokens(maxTokens)
    IN  IF transcriptTokens > eff
        THEN [chunks |-> Append(st.chunks, <<transcript>>),
              currentChunk |-> <<>>,
              currentChunkTokens |-> 0]
        ELSE IF st.currentChunkTokens + transcriptTokens > eff /\ Len(st.currentChunk) > 0
             THEN [chunks |-> Append(st.chunks, st.currentChunk),
                   currentChunk |-> <<transcript>>,
                   currentChunkTokens |-> transcriptTokens]
             ELSE [chunks |-> st.chunks,
                   currentChunk |-> Append(st.currentChunk, transcript),
                   currentChunkTokens |-> st.currentChunkTokens + transcriptTokens]

\* ForBody with an oversize segment closed together with the open chunk
ForBody_GroupsOversize(st, transcript, maxTokens) ==
    LET transcriptTokens == countTokens(JSONLength(transcript))
        eff == effectiveMaxTokens(maxTokens)
    IN  IF transcriptTokens > eff
        THEN [chunks |-> Append(st.chunks, Append(st.currentChunk, transcript)),
              currentChunk |-> <<>>,
              currentChunkTokens |-> 0]
        ELSE IF st.currentChunkTokens + transcriptTokens > eff /\ Len(st.currentChunk) > 0
             THEN [chunks |-> Append(st.chunks, st.currentChunk),
                   currentChunk |-> <<transcript>>,
                   currentChunkTokens |-> transcriptTokens]
             ELSE [chunks |-> st.chunks,
                   currentChunk |-> Append(st.currentChunk, transcript),
                   currentChunkTokens |-> st.currentChunkTokens + transcriptTokens]

\* ForBody that keeps filling the open chunk past the effective ceiling
ForBody_NeverCloses(st, transcript, maxTokens) ==
    LET transcriptTokens == countTokens(JSONLength(transcript))
        eff == effectiveMaxTokens(maxTokens)
    IN  IF transcriptTokens > eff
        THEN IF Len(st.currentChunk) > 0
             THEN [chunks |-> Append(Append(st.chunks, st.currentChunk), <<transcript>>),
                   currentChunk |-> <<>>,
                   currentChunkTokens |-> 0]
             ELSE [chunks |-> Append(st.chunks, <<transcript>>),
                   currentChunk |-> st.currentChunk,
                   currentChunkTokens |-> st.currentChunkTokens]
        ELSE [chunks |-> st.chunks,
              currentChunk |-> Append(st.currentChunk, transcript),
              currentChunkTokens |-> st.currentChunkTokens + transcriptTokens]

\* ForBody that closes the open chunk before every segment, fitting or not
ForBody_ClosesEarly(st, transcript, maxTokens) ==
    IF Len(st.currentChunk) > 0
    THEN [chunks |-> Append(st.chunks, st.currentChunk),
          currentChunk |-> <<transcript>>,
          currentChunkTokens |-> countTokens(JSONLength(transcript))]
    ELSE [chunks |-> st.chunks,
          currentChunk |-> <<transcript>>,
          currentChunkTokens |-> countTokens(JSONLength(transcript))]

\* One iteration of the for loop on `transcript`, from the loop state st.
ForBody(st, transcript, maxTokens) ==
    LET transcriptTokens == countTokens(JSONLength(transcript))
        eff == effectiveMaxTokens(maxTokens)
    IN  IF transcriptTokens > eff
        THEN IF Len(st.currentChunk) > 0
             THEN [chunks |-> Append(Append(st.chunks, st.currentChunk), <<transcript>>),
                   currentChunk |-> <<>>,
                   currentChunkTokens |-> 0]
             ELSE [chunks |-> Append(st.chunks, <<transcript>>),
                   currentChunk |-> st.currentChunk,
                   currentChunkTokens |-> st.currentChunkTokens]
        ELSE IF st.currentChunkTokens + transcriptTokens > eff /\ Len(st.currentChunk) > 0
             THEN [chunks |-> Append(st.chunks, st.currentChunk),
                   currentChunk |-> <<transcript>>,
                   currentChunkTokens |-> transcriptTokens]
             ELSE [chunks |-> st.chunks,
                   currentChunk |-> Append(st.currentChunk, transcript),
                   currentChunkTokens |-> st.currentChunkTokens + transcriptTokens]

\* The statements after the loop: the open chunk is closed when non-empty.
AfterLoop(st) ==
    IF Len(st.currentChunk) > 0 THEN Append(st.chunks, st.currentChunk) ELSE st.chunks

RECURSIVE ChunkLoop(_, _, _)
ChunkLoop(st, rest, maxTokens) ==
    IF rest = <<>> THEN st
    ELSE ChunkLoop(ForBody(st, Head(rest), maxTokens), Tail(rest), maxTokens)

EmptyLoopState == [chunks |-> <<>>, currentChunk |-> <<>>, currentChunkTokens |-> 0]

\* The function as a whole, as its callers use it.
createTokenAwareChunks(segs, maxTokens) ==
    AfterLoop(ChunkLoop(EmptyLoopState, segs, maxTokens))

LoopState == [chunks |-> chunks, currentChunk |-> currentChunk,
              currentChunkTokens |-> currentChunkTokens]

ChunkInit ==
    /\ \E n \in 0..MaxSegments :
         \E f \in [1..n -> SegmentLengths] :
            transcripts = [k \in 1..n |-> [id |-> k, len |-> f[k]]]
    /\ maxTokensPerChunk \in MaxTokensChoices
    /\ i = 0
    /\ chunks = <<>>
    /\ currentChunk = <<>>
    /\ currentChunkTokens = 0
    /\ chunkPc = "loop"
    /\ ValidateIdle
    /\ RetryIdle
    /\ GenIdle
    /\ PathIdle
    /\ MergeIdle
    /\ JobsIdle

\* an iteration whose segment alone exceeds the effective ceiling
ForOversize ==
    /\ chunkPc = "loop"
    /\ i < Len(transcripts)
    /\ countTokens(JSONLength(transcripts[i + 1])) > effectiveMaxTokens(maxTokensPerChunk)
    /\ LET st == ForBody(LoopState, transcripts[i + 1], maxTokensPerChunk)
       IN  /\ chunks' = st.chunks
           /\ currentChunk' = st.currentChunk
           /\ currentChunkTokens' = st.currentChunkTokens
    /\ i' = i + 1
    /\ UNCHANGED <<transcripts, maxTokensPerChunk, chunkPc, validateVars, retryVars, genVars, pathVars, mergeVars, jobVars>>

\* an iteration whose segment fits the effective ceiling
ForFits ==
    /\ chunkPc = "loop"
    /\ i < Len(transcripts)
    /\ countTokens(JSONLength(transcripts[i + 1])) <= effectiveMaxTokens(maxTokensPerChunk)
    /\ LET st == ForBody(LoopState, transcripts[i + 1], maxTokensPerChunk)
       IN  /\ chunks' = st.chunks
           /\ currentChunk' = st.currentChunk
           /\ currentChunkTokens' = st.currentChunkTokens
    /\ i' = i + 1
    /\ UNCHANGED <<transcripts, maxTokensPerChunk, chunkPc, validateVars, retryVars, genVars, pathVars, mergeVars, jobVars>>

\* loop exit, the closing of the open chunk, and the return
ChunkReturn ==
    /\ chunkPc = "loop"
    /\ i = Len(transcripts)
    /\ chunks' = AfterLoop(LoopState)
    /\ currentChunk' = currentChunk
    /\ chunkPc' = "done"
    /\ UNCHANGED <<transcripts, maxTokensPerChunk, i, currentChunkTokens, validateVars, retryVars, genVars, pathVars, mergeVars, jobVars>>

ChunkNext == ForOversize \/ ForFits \/ ChunkReturn

SpecChunk == ChunkInit /\ [][ChunkNext]_vars

-----------------------------------------------------------------------------
(* Claims on createTokenAwareChunks, under SpecChunk *)

Oversize(k) ==
    countTokens(JSONLength(transcripts[k])) > effectiveMaxTokens(maxTokensPerChunk)

\* C1: concatenating the chunks returned by createTokenAwareChunks, in order,
\* yields exactly the input sequence (same elements, same order, nothing
\* dropped, nothing duplicated); during the loop the closed chunks followed by
\* the open chunk are exactly the segments consumed so far.
C1_ChunksConcatIsInput ==
    /\ chunkPc = "loop" =>
          Flatten(chunks) \o currentChunk = SubSeq(transcripts, 1, i)
    /\ chunkPc = "done" => Flatten(chunks) = transcripts

\* C1 witness: a finished run on three segments that closed several chunks,
\* one of them holding more than one segment.
C1_Witness ==
    /\ chunkPc = "done"
    /\ Len(transcripts) >= 3
    /\ Len(chunks) >= 2
    /\ \E c \in 1..Len(chunks) : Len(chunks[c]) >= 2

\* C2: a segment whose own token cost exceeds the effective ceiling
\* (maxTokensPerChunk - 5000) is returned as a chunk holding only that segment:
\* it is not dropped and it shares no chunk with a neighbour.
C2_OversizeAlone ==
    chunkPc = "done" =>
        /\ \A k \in 1..Len(transcripts) :
              Oversize(k) => \E c \in 1..Len(chunks) : chunks[c] = <<transcripts[k]>>
        /\ \A c \in 1..Len(chunks) :
              Len(chunks[c]) > 1 =>
                 \A j \in 1..Len(chunks[c]) :
                    countTokens(JSONLength(chunks[c][j]))
                       <= effectiveMaxTokens(maxTokensPerChunk)

\* C2 witness: an oversize segment between two segments that fit, under the
\* default ceiling, came out alone.
C2_Witness ==
    /\ chunkPc = "done"
    /\ Len(transcripts) >= 3
    /\ maxTokensPerChunk = DefaultMaxTokensPerChunk
    /\ ~Oversize(1) /\ Oversize(2) /\ ~Oversize(3)
    /\ chunks[2] = <<transcripts[2]>>

\* summed per-segment token cost of a chunk
RECURSIVE ChunkCost(_)
ChunkCost(chunk) ==
    IF chunk = <<>> THEN 0
    ELSE countTokens(JSONLength(Head(chunk))) + ChunkCost(Tail(chunk))

\* C24: every returned chunk that holds more than one segment has a summed
\* per-segment token cost of at most maxTokensPerChunk - 5000, so only a
\* one-segment chunk may exceed that ceiling; during the loop the same holds
\* of the closed chunks and of the open chunk, whose cost is the running count.
C24_MultiSegmentChunkWithinCeiling ==
    /\ \A c \in 1..Len(chunks) :
          Len(chunks[c]) > 1 =>
             ChunkCost(chunks[c]) <= effectiveMaxTokens(maxTokensPerChunk)
    /\ chunkPc = "loop" =>
          /\ currentChunkTokens = ChunkCost(currentChunk)
          /\ Len(currentChunk) > 1 =>
                currentChunkTokens <= effectiveMaxTokens(maxTokensPerChunk)

\* C24 witness: with effective ceiling 6, segments of 1, 5 and 2 tokens come
\* out as a two-segment chunk of cost 6 and a chunk opened by the overflow.
C24_Witness ==
    /\ chunkPc = "done"
    /\ effectiveMaxTokens(maxTokensPerChunk) = 6
    /\ Len(chunks) = 2
    /\ Len(chunks[1]) = 2
    /\ ChunkCost(chunks[1]) = 6
    /\ ChunkCost(chunks[1]) + countTokens(JSONLength(chunks[2][1])) > 6

\* C39: no chunk is empty, and a chunk is closed only when the next segment
\* would not fit: the cost of a chunk plus the cost of the first segment of
\* the chunk after it exceeds the effective ceiling; during the loop the same
\* holds of the closed chunks, with the open chunk as the one after the last.
C39_NoEmptyChunkGreedy ==
    /\ \A c \in 1..Len(chunks) : Len(chunks[c]) > 0
    /\ \A c \in 1..(Len(chunks) - 1) :
          ChunkCost(chunks[c]) + countTokens(JSONLength(chunks[c + 1][1]))
              > effectiveMaxTokens(maxTokensPerChunk)
    /\ (chunkPc = "loop" /\ Len(chunks) > 0 /\ Len(currentChunk) > 0) =>
          ChunkCost(chunks[Len(chunks)]) + countTokens(JSONLength(currentChunk[1]))
              > effectiveMaxTokens(maxTokensPerChunk)

\* ceiling 6: a 5-token segment is closed alone because the 2-token segment
\* after it would not fit, and the 2- and 3-token segments share a chunk
C39_Witness ==
    /\ chunkPc = "done"
    /\ effectiveMaxTokens(maxTokensPerChunk) = 6
    /\ Len(chunks) = 2
    /\ Len(chunks[1]) = 1
    /\ ChunkCost(chunks[1]) = 5
    /\ Len(chunks[2]) = 2
    /\ ChunkCost(chunks[2]) = 5

-----------------------------------------------------------------------------
(* validateClips and validate: the clip validators *)

Clip(s, e) == [startTime |-> s, endTime |-> e, transcriptText |-> "quote"]

\* Math.abs((parseFloat(c.endTime) - parseFloat(c.startTime)) - explicitDuration) > 0.05
DurationMismatch_OneSided(c, d) == (c.endTime - c.startTime) - d > DurationToleranceMs

DurationMismatch(c, d) == Abs((c.endTime - c.startTime) - d) > DurationToleranceMs

\* parseFloat(c.startTime) < videoDuration * 0.8
BeforeLast20Percent_Inclusive(c, duration) == c.startTime * 10 <= duration * 8

BeforeLast20Percent_Reversed(c, duration) == c.startTime * 10 > duration * 8

BeforeLast20Percent(c, duration) == c.startTime * 10 < duration * 8

\* start < 0 || end > videoDuration
OutOfBounds(c, duration) == c.startTime < 0 \/ c.endTime > duration

\* validateClips of part_005 without its end-anchor check
validateClips_NoEndCheck(cs, duration, d, endPart) ==
    IF Len(cs) = 0 THEN "empty"
    ELSE IF Truthy(d) /\ \E k \in 1..Len(cs) : DurationMismatch(cs[k], d)
    THEN "duration"
    ELSE "ok"

\* src/unnamed/part_005: the whole list is checked for emptiness, then for
\* the duration, then for the end anchor.
validateClips(cs, duration, d, endPart) ==
    IF Len(cs) = 0 THEN "empty"
    ELSE IF Truthy(d) /\ \E k \in 1..Len(cs) : DurationMismatch(cs[k], d)
    THEN "duration"
    ELSE IF endPart /\ \E k \in 1..Len(cs) : BeforeLast20Percent(cs[k], duration)
    THEN "endpart"
    ELSE "ok"

\* getTranscript.js: the three checks of one clip, in the order of the loop body
ClipError_initialVersion(c, duration, d, endPart) ==
    IF OutOfBounds(c, duration) THEN "bounds"
    ELSE IF Truthy(d) /\ DurationMismatch(c, d) THEN "duration"
    ELSE IF endPart /\ BeforeLast20Percent(c, duration) THEN "endpart"
    ELSE "ok"

\* getTranscript.js: `for (const clip of clips)`, the first throw ends the call;
\* there is no check of emptiness.
RECURSIVE validateClips_initialVersion(_, _, _, _)
validateClips_initialVersion(cs, duration, d, endPart) ==
    IF cs = <<>> THEN "ok"
    ELSE LET e == ClipError_initialVersion(Head(cs), duration, d, endPart)
         IN  IF e # "ok" THEN e
             ELSE validateClips_initialVersion(Tail(cs), duration, d, endPart)

\* clipsController/generateClips.js: as part_005, the end anchor being checked
\* only together with an explicit duration; promptHasEnd is /end/i.test(customPrompt)
validate_clipsController(cs, duration, d, promptHasEnd) ==
    IF Len(cs) = 0 THEN "empty"
    ELSE IF Truthy(d) /\ \E k \in 1..Len(cs) : DurationMismatch(cs[k], d)
    THEN "duration"
    ELSE IF Truthy(d) /\ promptHasEnd
            /\ \E k \in 1..Len(cs) : BeforeLast20Percent(cs[k], duration)
    THEN "endpart"
    ELSE "ok"

\* clips a generation service may return, for a 100 s or a 20 s source and a
\* request of 8 s or 11 s
SampleClips ==
    { Clip(81000, 92040),    \* 11.04 s
      Clip(85000, 96200),    \* 11.2 s
      Clip(85000, 96000),    \* 11 s, starts at 85 s
      Clip(75000, 86000),    \* 11 s, starts at 75 s
      Clip(80000, 88000),    \* 8 s, starts at 80 s
      Clip(-5000, 6000),     \* starts before 0
      Clip(95000, 106000),   \* ends after 100 s
      Clip(50000, 40000),    \* ends before it starts
      Clip(81000, 88950),    \* 7.95 s
      Clip(81000, 91940) }   \* 10.94 s

SampleVideoDurations == {100000, 20000}

SampleExplicitDurations == {Null, 0, 8000, 11000}

Implementations == {"part_005", "initialVersion", "clipsController"}

ClipLists(n) == UNION {[1..m -> SampleClips] : m \in 0..n}

ValidateInit ==
    /\ ChunkIdle
    /\ RetryIdle
    /\ GenIdle
    /\ PathIdle
    /\ MergeIdle
    /\ JobsIdle
    /\ impl \in Implementations
    /\ clips \in ClipLists(MaxClips)
    /\ videoDuration \in SampleVideoDurations
    /\ explicitDuration \in SampleExplicitDurations
    /\ isEndPart \in BOOLEAN
    /\ verdict = "pending"

Validate_part005 ==
    /\ verdict = "pending"
    /\ impl = "part_005"
    /\ verdict' = validateClips(clips, videoDuration, explicitDuration, isEndPart)
    /\ UNCHANGED <<impl, clips, videoDuration, explicitDuration, isEndPart, chunkVars, retryVars, genVars, pathVars, mergeVars, jobVars>>

Validate_initialVersion ==
    /\ verdict = "pending"
    /\ impl = "initialVersion"
    /\ verdict' = validateClips_initialVersion(clips, videoDuration, explicitDuration, isEndPart)
    /\ UNCHANGED <<impl, clips, videoDuration, explicitDuration, isEndPart, chunkVars, retryVars, genVars, pathVars, mergeVars, jobVars>>

Validate_clipsController ==
    /\ verdict = "pending"
    /\ impl = "clipsController"
    /\ verdict' = validate_clipsController(clips, videoDuration, explicitDuration, isEndPart)
    /\ UNCHANGED <<impl, clips, videoDuration, explicitDuration, isEndPart, chunkVars, retryVars, genVars, pathVars, mergeVars, jobVars>>

ValidateNext == Validate_part005 \/ Validate_initialVersion \/ Validate_clipsController

SpecValidate == ValidateInit /\ [][ValidateNext]_vars

-----------------------------------------------------------------------------
(* Claims on the validators, under SpecValidate *)

Validated == verdict \notin {"idle", "pending"}

ClipOf(k) == clips[k]

\* |(endTime - startTime) - d| <= 0.05 s
WithinTolerance(c, d) ==
    /\ (c.endTime - c.startTime) - d <= 50
    /\ d - (c.endTime - c.startTime) <= 50

\* startTime >= 0.8 x sourceDuration
InFinalFifth(c) == 5 * c.startTime >= 4 * videoDuration

DurationClaim ==
    /\ (\A k \in 1..Len(clips) : WithinTolerance(ClipOf(k), explicitDuration))
          => verdict # "duration"
    /\ (\E k \in 1..Len(clips) : ~WithinTolerance(ClipOf(k), explicitDuration))
          => verdict # "ok"
    /\ impl \in {"part_005", "clipsController"} =>
          (verdict = "duration"
             <=> \E k \in 1..Len(clips) : ~WithinTolerance(ClipOf(k), explicitDuration))
    /\ (explicitDuration = 11000 /\ clips = <<Clip(85000, 96200)>> /\ videoDuration = 100000)
          => verdict = "duration"
    /\ (explicitDuration = 11000 /\ clips = <<Clip(81000, 92040)>> /\ videoDuration = 100000)
          => verdict = "ok"

SingleClipFromEnd(start) ==
    /\ Validated
    /\ impl \in {"part_005", "initialVersion"}
    /\ isEndPart
    /\ videoDuration = 100000
    /\ Len(clips) = 1
    /\ clips[1].startTime = start

\* C7 as stated: with requireFromEnd and sourceDuration = 100, a clip starting
\* at 85 is rejected and a clip starting at 81 is not rejected for its start.
C7_AsStated ==
    /\ SingleClipFromEnd(85000) => verdict # "ok"
    /\ SingleClipFromEnd(81000) => verdict # "endpart"

\* C7: with requireFromEnd and sourceDuration = 100 (threshold 80), a clip
\* starting at 85 and a clip starting at 81 are both accepted by the end-anchor
\* check, and a clip starting at 75 is rejected.
C7_EndAnchorExamples ==
    /\ SingleClipFromEnd(85000) => verdict # "endpart"
    /\ (SingleClipFromEnd(85000) /\ clips[1].endTime = 96000
           /\ explicitDuration \in {Null, 0, 11000}) => verdict = "ok"
    /\ SingleClipFromEnd(81000) => verdict # "endpart"
    /\ SingleClipFromEnd(75000) => verdict # "ok"
    /\ (SingleClipFromEnd(75000) /\ explicitDuration \in {Null, 0, 11000})
          => verdict = "endpart"

\* C7 witness: an end-anchored request on a 100 s source accepted the clip
\* that starts at 85 s.
C7_Witness == SingleClipFromEnd(85000) /\ verdict = "ok"

\* C8: when the request is end-anchored the list passes the end-anchor check
\* exactly when every clip has startTime >= 0.8 x sourceDuration; when it is
\* not end-anchored no clip is rejected for its position.
C8_EndAnchor ==
    (Validated /\ impl \in {"part_005", "initialVersion"}) =>
        /\ (isEndPart /\ verdict = "ok") =>
              \A k \in 1..Len(clips) : InFinalFifth(ClipOf(k))
        /\ verdict = "endpart" =>
              (isEndPart /\ \E k \in 1..Len(clips) : ~InFinalFifth(ClipOf(k)))
        /\ (isEndPart /\ \E k \in 1..Len(clips) : ~InFinalFifth(ClipOf(k)))
              => verdict # "ok"
        /\ (impl = "part_005" /\ isEndPart /\ verdict # "duration") =>
              (verdict = "endpart" <=> \E k \in 1..Len(clips) : ~InFinalFifth(ClipOf(k)))

\* C8 witness: an end-anchored request accepted a clip that starts exactly at
\* 0.8 x sourceDuration.
C8_Witness ==
    /\ verdict = "ok"
    /\ isEndPart
    /\ impl \in {"part_005", "initialVersion"}
    /\ videoDuration = 100000
    /\ \E k \in 1..Len(clips) : clips[k].startTime = 80000

\* C9: every clip of a list that passed the validator satisfies
\* 0 <= startTime < endTime <= sourceDuration.
C9_AsStated ==
    (impl \in {"part_005", "initialVersion"} /\ verdict = "ok") =>
        \A k \in 1..Len(clips) :
            /\ 0 <= clips[k].startTime
            /\ clips[k].startTime < clips[k].endTime
            /\ clips[k].endTime <= videoDuration

\* the clips of the list lie within [0, videoDuration]
AllWithinBounds ==
    \A k \in 1..Len(clips) : clips[k].startTime >= 0 /\ clips[k].endTime <= videoDuration

\* C26 as stated: the validator of part_005 and of getTranscript.js reports
\* the first failing check in the order empty, bounds, duration, end anchor:
\* an empty list is reported as empty, and a list within bounds that violates
\* both the explicit-duration and the end-anchor constraint is reported as a
\* duration violation, whichever clip violates which.
C26_AsStated ==
    (Validated /\ impl \in {"part_005", "initialVersion"}) =>
        /\ clips = <<>> => verdict = "empty"
        /\ ( /\ clips # <<>>
             /\ AllWithinBounds
             /\ Truthy(explicitDuration)
             /\ isEndPart
             /\ \E k \in 1..Len(clips) : ~WithinTolerance(clips[k], explicitDuration)
             /\ \E k \in 1..Len(clips) : ~InFinalFifth(clips[k]) )
              => verdict = "duration"

-----------------------------------------------------------------------------
(* callOpenAIWithRetry *)

RateLimit == "rate_limit_exceeded"

\* error codes of a failed call: the rate-limit signal, and two others
ErrorCodes == {RateLimit, "invalid_request_error", "server_error"}

\* error.headers?.['retry-after-ms'] of a failed call: absent (Null), or the
\* advertised delay
RetryAfterHeaders == {Null, 0, 250, 3000}

\* 2^n
RECURSIVE Pow2(_)
Pow2(n) == IF n = 0 THEN 1 ELSE 2 * Pow2(n - 1)

retryAfterMs_IgnoresHeader(header, n) == Pow2(n) * 1000

\* the header is a string: any present header is truthy, "0" included
retryAfterMs(header, n) == IF header # Null THEN header ELSE Pow2(n) * 1000

ShouldRetry_OneFewer(code, n) == code = RateLimit /\ n < maxRetries - 1

ShouldRetry_AnyError(code, n) == n < maxRetries

\* error.code === 'rate_limit_exceeded' && retries < maxRetries
\* (getTranscript.js reads error.error?.code; the client library sets both to
\* the code of the error body)
ShouldRetry_NoLimit(code, n) == code = RateLimit

ShouldRetry(code, n) == code = RateLimit /\ n < maxRetries

RetryInit ==
    /\ ChunkIdle
    /\ ValidateIdle
    /\ GenIdle
    /\ PathIdle
    /\ MergeIdle
    /\ JobsIdle
    /\ retries = 0
    /\ answers = <<>>
    /\ sleeps = <<>>
    /\ advertised = <<>>
    /\ thrownError = "none"
    /\ retryPc = "call"

\* the awaited create() resolves: `return result`
CallReturns ==
    /\ retryPc = "call"
    /\ retries <= maxRetries
    /\ answers' = Append(answers, "ok")
    /\ retryPc' = "returned"
    /\ UNCHANGED <<retries, sleeps, advertised, thrownError, chunkVars, validateVars, genVars, pathVars, mergeVars, jobVars>>

\* the awaited create() rejects with a rate-limit error and retries are left:
\* the delay is computed and the sleep begins
CallRateLimited ==
    /\ retryPc = "call"
    /\ retries <= maxRetries
    /\ \E code \in ErrorCodes, header \in RetryAfterHeaders :
          /\ ShouldRetry(code, retries)
          /\ sleeps' = Append(sleeps, retryAfterMs(header, retries))
          /\ advertised' = Append(advertised, header)
          /\ answers' = Append(answers, code)
    /\ retryPc' = "sleep"
    /\ UNCHANGED <<retries, thrownError, chunkVars, validateVars, genVars, pathVars, mergeVars, jobVars>>

\* the awaited create() rejects and the error is rethrown
CallThrows ==
    /\ retryPc = "call"
    /\ retries <= maxRetries
    /\ \E code \in ErrorCodes :
          /\ ~ShouldRetry(code, retries)
          /\ answers' = Append(answers, code)
          /\ thrownError' = code
    /\ retryPc' = "thrown"
    /\ UNCHANGED <<retries, sleeps, advertised, chunkVars, validateVars, genVars, pathVars, mergeVars, jobVars>>

\* the sleep ends: retries++ and the loop condition is tested again; when it
\* is false the function ends without a return statement
SleepEnds ==
    /\ retryPc = "sleep"
    /\ retries' = retries + 1
    /\ retryPc' = IF retries + 1 <= maxRetries THEN "call" ELSE "fellThrough"
    /\ UNCHANGED <<answers, sleeps, advertised, thrownError, chunkVars, validateVars, genVars, pathVars, mergeVars, jobVars>>

RetryNext == CallReturns \/ CallRateLimited \/ CallThrows \/ SleepEnds

SpecRetry == RetryInit /\ [][RetryNext]_vars

-----------------------------------------------------------------------------
(* Claims on callOpenAIWithRetry, under SpecRetry *)

AllRateLimited == \A k \in 1..Len(answers) : answers[k] = RateLimit

\* C10 as stated: the service is called at most 3 times in total when every
\* call is answered with a rate-limit error.
C10_AsStated == AllRateLimited => Len(answers) <= 3

\* C10: when every call is answered with a rate-limit error the service is
\* called at most 4 times in total (the first call and 3 retries); the function
\* then throws that rate-limit error, and it neither returns a value nor ends
\* before the fourth call.
C10_FourCallsThenThrows ==
    /\ Len(answers) <= 4
    /\ (AllRateLimited /\ Len(answers) > 0) => retryPc \in {"sleep", "call", "thrown"}
    /\ (AllRateLimited /\ retryPc = "thrown") =>
          /\ Len(answers) = 4
          /\ Len(sleeps) = 3
          /\ thrownError = RateLimit
    /\ retryPc = "returned" => (thrownError = "none" /\ answers[Len(answers)] = "ok")

\* C10 witness: four rate-limited calls, then the rate-limit error thrown.
C10_Witness ==
    /\ retryPc = "thrown"
    /\ AllRateLimited
    /\ Len(answers) = 4
    /\ thrownError = RateLimit

BackoffDelays == <<1000, 2000, 4000>>

\* C25: the delay slept after a rate-limit error is exactly the advertised
\* retry-after-ms when the error carries one (0 included) and 1000 x 2^k ms
\* before the k-th retry otherwise (1 s, 2 s, 4 s); a call is issued only when
\* every sleep begun before it has ended: the calls made never outnumber the
\* ended sleeps by more than one.
C25_SleepBeforeRetry ==
    /\ Len(sleeps) <= 3
    /\ Len(advertised) = Len(sleeps)
    /\ \A k \in 1..Len(sleeps) :
          sleeps[k] = IF advertised[k] # Null THEN advertised[k] ELSE BackoffDelays[k]
    /\ Len(answers) <= retries + 1
    /\ retryPc = "sleep" => (Len(sleeps) = retries + 1 /\ Len(answers) = retries + 1)
    /\ retryPc # "sleep" => Len(sleeps) = retries

\* C25 witness: three retries, the second after the advertised 250 ms, the
\* others after 1 s and 4 s; the fourth call is being made.
C25_Witness ==
    /\ retryPc = "call"
    /\ retries = 3
    /\ Len(answers) = 3
    /\ advertised = <<Null, 250, Null>>
    /\ sleeps = <<1000, 250, 4000>>

\* C35: the retry loop is never left by its condition: whenever the condition
\* is tested it holds, a call that returned returned the completion of a
\* successful service call, and a call that threw threw the error of its last
\* service call.
C35_NeverFallsThrough ==
    /\ retryPc \in {"idle", "call", "sleep", "returned", "thrown"}
    /\ retryPc = "call" => retries <= maxRetries
    /\ retryPc = "returned" => answers[Len(answers)] = "ok"
    /\ retryPc = "thrown" =>
          /\ thrownError # "none"
          /\ thrownError = answers[Len(answers)]

\* after three sleeps the fourth service call is rate limited as well and its
\* error is thrown
C35_Witness ==
    /\ retryPc = "thrown"
    /\ retries = maxRetries
    /\ Len(sleeps) = maxRetries
    /\ thrownError = RateLimit
    /\ answers[Len(answers)] = RateLimit

\* the calls answered with an error other than the rate-limit signal
OtherErrorCalls == {k \in 1..Len(answers) : answers[k] \notin {RateLimit, "ok"}}

\* C11: a call that fails with an error other than the rate-limit signal is the
\* last call of callOpenAIWithRetry: the function has thrown that very error,
\* no call follows it and no sleep follows it (every sleep so far follows an
\* earlier, rate-limited call), whatever the number of retries used before.
C11_OtherErrorsPropagate ==
    \A k \in OtherErrorCalls :
        /\ k = Len(answers)
        /\ retryPc = "thrown"
        /\ thrownError = answers[k]
        /\ Len(sleeps) = k - 1
        /\ retries = k - 1

\* C11 witness: after two rate-limited calls and two sleeps the third call
\* fails with a server error, which is thrown.
C11_Witness ==
    /\ retryPc = "thrown"
    /\ retries = 2
    /\ Len(sleeps) = 2
    /\ answers = <<RateLimit, RateLimit, "server_error">>
    /\ thrownError = "server_error"

-----------------------------------------------------------------------------
(* generateClips, the chunked handler: part_005 and getTranscript.js *)

Seg(id, len, start, end) ==
    [id |-> id, len |-> len, start |-> start, end |-> end, text |-> "quote"]

\* Sample sources.  `segments` is the segment array, `duration` the duration
\* field of the transcript object (getTranscript.js); part_005 reads the
\* duration off the last segment's `end`.
\*   - the 100 s source of three short segments (one chunk)
\*   - a 100.337 s source of three segments of 20000 tokens each (three chunks)
\*   - a 20 s and a 5 s source of one segment
\*   - a source whose last segment carries no `end` (0 stands for the missing field)
\*   - a transcript object with no segment
SampleVideos ==
    { [segments |-> <<Seg(1, 120, 0, 10000), Seg(2, 120, 10000, 20000),
                      Seg(3, 130, 90000, 100000)>>, duration |-> 100000],
      [segments |-> <<Seg(1, 80000, 0, 30000), Seg(2, 80000, 30000, 60000),
                      Seg(3, 80000, 60000, 100337)>>, duration |-> 100337],
      [segments |-> <<Seg(1, 200, 0, 20000)>>, duration |-> 20000],
      [segments |-> <<Seg(1, 100, 0, 5000)>>, duration |-> 5000],
      [segments |-> <<Seg(1, 100, 0, 0)>>, duration |-> 30000],
      [segments |-> <<>>, duration |-> 100000] }

\* Sample instructions, each with what the two regular expressions find in it:
\* seconds = parseFloat of the first /(\d+(?:\.\d+)?)\s*second(?:s)?/i match
\* (Null without a match), hasEnd = /end/i, hasLast = /last/i.  The instruction
\* with present = FALSE is a request without customPrompt.
Prompt(text, seconds, hasEnd, hasLast) ==
    [present |-> TRUE, text |-> text, seconds |-> seconds,
     hasEnd |-> hasEnd, hasLast |-> hasLast]

SamplePrompts ==
    { Prompt("give me an 8 second clip from the end", 8000, TRUE, FALSE),
      Prompt("an 11 second clip", 11000, FALSE, FALSE),
      Prompt("the funniest moment", Null, FALSE, FALSE),
      Prompt("30 seconds from the end", 30000, TRUE, FALSE),
      Prompt("the last part", Null, FALSE, TRUE),
      Prompt("how does it end", Null, TRUE, FALSE),
      Prompt("0 seconds", 0, FALSE, FALSE),
      Prompt("", Null, FALSE, FALSE),
      [present |-> FALSE, text |-> "undefined", seconds |-> Null,
       hasEnd |-> FALSE, hasLast |-> FALSE] }

PhraseText == "No transcript available"

TextClip(s, e, text) == [startTime |-> s, endTime |-> e, transcriptText |-> text]

\* What the final chunk's response parses to: JSON.parse throws (parses =
\* FALSE) or yields an array of clips (items).  The lists: none, clips of 8 s
\* and 11 s inside and outside the final fifth of a 100 s source, a clip that
\* ends before it starts, a clip without transcriptText, a clip quoting the
\* fallback phrase, and a list of two clips.
FinalResponses ==
    { [parses |-> FALSE, items |-> <<>>],
      [parses |-> TRUE, items |-> <<>>],
      [parses |-> TRUE, items |-> <<Clip(92000, 100000)>>],
      [parses |-> TRUE, items |-> <<Clip(85000, 96000)>>],
      [parses |-> TRUE, items |-> <<Clip(10000, 21000)>>],
      [parses |-> TRUE, items |-> <<Clip(3000, 11000)>>],
      [parses |-> TRUE, items |-> <<Clip(50000, 40000)>>],
      [parses |-> TRUE, items |-> <<TextClip(85000, 96000, "undefined")>>],
      [parses |-> TRUE, items |-> <<TextClip(85000, 96000, PhraseText)>>],
      [parses |-> TRUE, items |-> <<Clip(81000, 89000), Clip(92000, 100000)>>] }

\* candidates k of chunk c, as a non-final response lists them
Candidates(c, k) == [n \in 1..k |-> <<c, n>>]

\* What a non-final chunk's response yields: match = the array pattern is
\* found, parses = JSON.parse of the match succeeds, count = its length.
NonFinalResponses ==
    { [match |-> FALSE, parses |-> FALSE, count |-> 0],
      [match |-> TRUE, parses |-> FALSE, count |-> 0],
      [match |-> TRUE, parses |-> TRUE, count |-> 7],
      [match |-> TRUE, parses |-> TRUE, count |-> 26] }

\* x.toFixed(2), as the number it reads back to: x rounded to hundredths
toFixed2(x) ==
    IF x >= 0 THEN ((x + 5) \div 10) * 10 ELSE -((((-x) + 5) \div 10) * 10)

Max(a, b) == IF a >= b THEN a ELSE b

SegmentsOf(b) ==
    IF impl = "part_005" THEN b.transcripts ELSE b.transcripts[1].segments

\* part_005: transcripts[transcripts.length - 1]?.end || 600
\* getTranscript.js: transcripts[0].duration
VideoDurationOf(b) ==
    IF impl = "part_005"
    THEN LET last == b.transcripts[Len(b.transcripts)]
         IN  IF last.end # 0 THEN last.end ELSE 600000
    ELSE b.transcripts[1].duration

\* part_005: /end/i.test(customPrompt); getTranscript.js: /end|last/i.test(customPrompt)
IsEndPartOf(prompt) ==
    IF impl = "part_005" THEN prompt.hasEnd ELSE prompt.hasEnd \/ prompt.hasLast

\* the validator of the running copy
ValidateOf(cs, duration, d, endPart) ==
    IF impl = "part_005" THEN validateClips(cs, duration, d, endPart)
    ELSE validateClips_initialVersion(cs, duration, d, endPart)

\* JSON.parse(...) followed by validateClips(...): "parse" when the parse throws
ParseAndValidate(resp) ==
    IF ~resp.parses THEN "parse"
    ELSE ValidateOf(resp.items, videoDuration, explicitDuration, isEndPart)

\* part_005, lines 289-294: the last 11 seconds
FallbackClips_part005 ==
    LET last20Percent10 == videoDuration * 8
        endSegments == SelectSeq(SegmentsOf(body), LAMBDA sg : sg.start * 10 >= last20Percent10)
    IN  << TextClip(toFixed2(videoDuration - 11000), toFixed2(videoDuration),
                    IF Len(endSegments) > 0 THEN endSegments[Len(endSegments)].text
                    ELSE PhraseText) >>

\* getTranscript.js, lines 389-402: the last explicitDuration (or 11) seconds
FallbackClips_initialVersion ==
    LET fallbackDuration == IF Truthy(explicitDuration) THEN explicitDuration ELSE 11000
        startTime == Max(0, videoDuration - fallbackDuration)
        endTime == videoDuration
        overlapping == SelectSeq(SegmentsOf(body),
                                 LAMBDA sg : sg.start < endTime /\ sg.end > startTime)
    IN  << TextClip(toFixed2(startTime), toFixed2(endTime),
                    IF Len(overlapping) > 0 THEN "quote" ELSE PhraseText) >>

SuccessMessage == "Video script generated successfully"
FallbackMessage == "No suitable 11-second segment found. Returning fallback clip from end of video."

\* part_005, lines 314-320: the 200 response; reading .includes of a missing
\* transcriptText throws, and the outer catch answers 500
Respond200_part005(finalClips) ==
    IF Len(finalClips) = 1 /\ finalClips[1].transcriptText = "undefined"
    THEN [status |-> 500, clips |-> <<>>, message |-> "Failed to generate video script"]
    ELSE [status |-> 200, clips |-> finalClips,
          message |-> IF Len(finalClips) = 1 /\ finalClips[1].transcriptText = PhraseText
                      THEN FallbackMessage ELSE SuccessMessage]

\* getTranscript.js, lines 404-408
Respond200_initialVersion(finalClips) ==
    [status |-> 200, clips |-> finalClips, message |-> SuccessMessage]

Respond200(finalClips) ==
    IF impl = "part_005" THEN Respond200_part005(finalClips)
    ELSE Respond200_initialVersion(finalClips)

Respond500 == [status |-> 500, clips |-> <<>>, message |-> "Failed to generate video script"]

Respond400 == [status |-> 400, clips |-> <<>>, message |-> "Invalid or missing transcripts data"]

\* part_005 line 269 declares `const responseContent`; line 286 assigns to it,
\* which throws a TypeError at run time.  getTranscript.js never assigns.
AssignResponseContentThrows == TRUE

\* part_005 line 274
maxAttempts == 3

GenInit ==
    /\ ChunkIdle
    /\ RetryIdle
    /\ PathIdle
    /\ MergeIdle
    /\ JobsIdle
    /\ \E p \in SamplePrompts :
          \/ \E v \in SampleVideos :
                /\ impl = "part_005"
                /\ body = [transcripts |-> v.segments, customPrompt |-> p]
          \/ \E v \in SampleVideos :
                /\ impl = "initialVersion"
                /\ body = [transcripts |-> <<v>>, customPrompt |-> p]
          \/ /\ impl = "initialVersion"
             /\ body = [transcripts |-> <<>>, customPrompt |-> p]
    /\ clips = <<>>
    /\ videoDuration = 0
    /\ explicitDuration = Null
    /\ isEndPart = FALSE
    /\ verdict = "idle"
    /\ transcriptChunks = <<>>
    /\ chunkIndex = 0
    /\ potentialSegments = <<>>
    /\ parsedSoFar = <<>>
    /\ attempt = 0
    /\ calls = <<>>
    /\ received = <<>>
    /\ clipSource = "none"
    /\ cause = "none"
    /\ res = NoResponse
    /\ genPc = "start"

IsLastChunk == chunkIndex = Len(transcriptChunks) - 1

\* `!transcripts || !Array.isArray(transcripts) || transcripts.length === 0`
Reject400 ==
    /\ genPc = "start"
    /\ Len(body.transcripts) = 0
    /\ res' = Respond400
    /\ genPc' = "done"
    /\ UNCHANGED <<body, transcriptChunks, chunkIndex, potentialSegments, parsedSoFar, attempt, calls,
                   received, clipSource, cause, validateVars, chunkVars, retryVars, pathVars, mergeVars, jobVars>>

\* customPrompt.match(...) on a missing customPrompt throws; the outer catch
\* answers 500
StartThrows ==
    /\ genPc = "start"
    /\ Len(body.transcripts) > 0
    /\ ~body.customPrompt.present
    /\ videoDuration' = VideoDurationOf(body)
    /\ res' = Respond500
    /\ cause' = "TypeError"
    /\ genPc' = "done"
    /\ UNCHANGED <<body, transcriptChunks, chunkIndex, potentialSegments, parsedSoFar, attempt, calls,
                   received, clipSource, impl, clips, explicitDuration, isEndPart,
                   verdict, chunkVars, retryVars, pathVars, mergeVars, jobVars>>

\* From the entry to the first awaited call: the duration, the constraint and
\* the chunks are computed.  With no chunk the loop body never runs:
\* getTranscript.js then leaves the handler without a response, part_005 reads
\* finalClips.length of null and answers 500.
Start ==
    /\ genPc = "start"
    /\ Len(body.transcripts) > 0
    /\ body.customPrompt.present
    /\ videoDuration' = VideoDurationOf(body)
    /\ explicitDuration' = body.customPrompt.seconds
    /\ isEndPart' = IsEndPartOf(body.customPrompt)
    /\ transcriptChunks' = createTokenAwareChunks(SegmentsOf(body), DefaultMaxTokensPerChunk)
    /\ chunkIndex' = 0
    /\ IF Len(transcriptChunks') > 0
       THEN /\ calls' = <<[chunk |-> 0, temperature |-> "0.2"]>>
            /\ genPc' = "call"
            /\ UNCHANGED <<res, cause>>
       ELSE /\ calls' = calls
            /\ genPc' = "done"
            /\ res' = IF impl = "part_005" THEN Respond500 ELSE res
            /\ cause' = IF impl = "part_005" THEN "TypeError" ELSE cause
    /\ UNCHANGED <<body, potentialSegments, parsedSoFar, attempt, received, clipSource, impl, clips,
                   verdict, chunkVars, retryVars, pathVars, mergeVars, jobVars>>

\* an awaited callOpenAIWithRetry rejects (retries exhausted, or another
\* error): the outer catch answers 500
GenerationThrows ==
    /\ genPc \in {"call", "retryCall"}
    /\ res' = Respond500
    /\ cause' = "service"
    /\ genPc' = "done"
    /\ UNCHANGED <<body, transcriptChunks, chunkIndex, potentialSegments, parsedSoFar, attempt, calls,
                   received, clipSource, validateVars, chunkVars, retryVars, pathVars, mergeVars, jobVars>>

SliceLast_First(seq, n) == IF Len(seq) <= n THEN seq ELSE SubSeq(seq, 1, n)

\* .slice(-n)
SliceLast(seq, n) ==
    IF Len(seq) <= n THEN seq ELSE SubSeq(seq, Len(seq) - n + 1, Len(seq))

OnParseFailure_Clears(buffer) == <<>>

\* the catch of the non-final branch, and a response without an array: a
\* warning is logged and potentialSegments is not assigned
OnParseFailure(buffer) == buffer

NextChunk_SkipsOne(k) == k + 2

\* `i++` of `for (let i = 0; i < transcriptChunks.length; i++)`
NextChunk(k) == k + 1

\* the response of a chunk that is not the last: the candidates found are
\* appended to the rolling buffer, cut to the last 30, and the next chunk's
\* call is made
NonFinalAnswered ==
    /\ genPc = "call"
    /\ ~IsLastChunk
    /\ \E resp \in NonFinalResponses :
          /\ potentialSegments' =
                IF resp.match /\ resp.parses
                THEN SliceLast(potentialSegments \o Candidates(chunkIndex, resp.count), 30)
                ELSE OnParseFailure(potentialSegments)
          /\ parsedSoFar' =
                IF resp.match /\ resp.parses
                THEN parsedSoFar \o Candidates(chunkIndex, resp.count)
                ELSE parsedSoFar
          /\ received' = Append(received, IF resp.match /\ resp.parses THEN "array" ELSE "malformed")
    /\ chunkIndex' = NextChunk(chunkIndex)
    /\ calls' = Append(calls, [chunk |-> NextChunk(chunkIndex), temperature |-> "0.2"])
    /\ UNCHANGED <<body, transcriptChunks, attempt, clipSource, cause, res, genPc,
                   validateVars, chunkVars, retryVars, pathVars, mergeVars, jobVars>>

\* the response of the last chunk parses and passes the validator: the clips
\* are the result and the 200 response is built
FinalAccepted ==
    /\ genPc = "call"
    /\ IsLastChunk
    /\ \E resp \in FinalResponses :
          /\ ParseAndValidate(resp) = "ok"
          /\ clips' = resp.items
          /\ res' = Respond200(resp.items)
          /\ cause' = IF Respond200(resp.items).status = 500 THEN "TypeError" ELSE cause
          /\ received' = Append(received, "array")
    /\ verdict' = "ok"
    /\ clipSource' = "model"
    /\ genPc' = "done"
    /\ UNCHANGED <<body, transcriptChunks, chunkIndex, potentialSegments, parsedSoFar, attempt, calls,
                   impl, videoDuration, explicitDuration, isEndPart, chunkVars, retryVars, pathVars, mergeVars, jobVars>>

\* the response of the last chunk does not parse or fails the validator.
\* getTranscript.js builds the fallback clip and answers 200; part_005 (attempt
\* 0 of 3) calls the service again at temperature 0.
FinalRejected ==
    /\ genPc = "call"
    /\ IsLastChunk
    /\ \E resp \in FinalResponses :
          /\ ParseAndValidate(resp) # "ok"
          /\ verdict' = ParseAndValidate(resp)
          /\ received' = Append(received, IF resp.parses THEN "array" ELSE "malformed")
    /\ IF impl = "initialVersion"
       THEN /\ clips' = FallbackClips_initialVersion
            /\ res' = Respond200(FallbackClips_initialVersion)
            /\ clipSource' = "fallback"
            /\ genPc' = "done"
            /\ UNCHANGED <<calls, attempt>>
       ELSE /\ attempt < maxAttempts - 1
            /\ calls' = Append(calls, [chunk |-> chunkIndex, temperature |-> "0"])
            /\ genPc' = "retryCall"
            /\ UNCHANGED <<clips, res, clipSource, attempt>>
    /\ UNCHANGED <<body, transcriptChunks, chunkIndex, potentialSegments, parsedSoFar, cause,
                   impl, videoDuration, explicitDuration, isEndPart, chunkVars, retryVars, pathVars, mergeVars, jobVars>>

\* part_005: the retry call of the final chunk resolves.  The assignment to
\* responseContent comes first; were it to succeed, the next attempt would
\* parse and validate the new response, call again, or fall back.
RetryAnswered ==
    /\ genPc = "retryCall"
    /\ \E resp \in FinalResponses :
          /\ received' = Append(received, IF resp.parses THEN "array" ELSE "malformed")
          /\ IF AssignResponseContentThrows
             THEN /\ res' = Respond500
                  /\ cause' = "TypeError"
                  /\ genPc' = "done"
                  /\ UNCHANGED <<attempt, clips, verdict, clipSource, calls>>
             ELSE /\ attempt' = attempt + 1
                  /\ verdict' = ParseAndValidate(resp)
                  /\ IF ParseAndValidate(resp) = "ok"
                     THEN /\ clips' = resp.items
                          /\ res' = Respond200(resp.items)
                          /\ clipSource' = "model"
                          /\ genPc' = "done"
                          /\ calls' = calls
                     ELSE IF attempt + 1 < maxAttempts - 1
                     THEN /\ calls' = Append(calls, [chunk |-> chunkIndex, temperature |-> "0"])
                          /\ genPc' = "retryCall"
                          /\ UNCHANGED <<clips, res, clipSource>>
                     ELSE /\ clips' = FallbackClips_part005
                          /\ res' = Respond200(FallbackClips_part005)
                          /\ clipSource' = "fallback"
                          /\ genPc' = "done"
                          /\ calls' = calls
                  /\ cause' = cause
    /\ UNCHANGED <<body, transcriptChunks, chunkIndex, potentialSegments, parsedSoFar,
                   impl, videoDuration, explicitDuration, isEndPart, chunkVars, retryVars, pathVars, mergeVars, jobVars>>

GenNext ==
    \/ Reject400
    \/ StartThrows
    \/ Start
    \/ GenerationThrows
    \/ NonFinalAnswered
    \/ FinalAccepted
    \/ FinalRejected
    \/ RetryAnswered

SpecGen == GenInit /\ [][GenNext]_vars

-----------------------------------------------------------------------------
(* Claims on the chunked generateClips, under SpecGen *)

Done == genPc = "done"

\* the request carries a transcript with at least one segment
NonEmptyTranscript ==
    /\ Len(body.transcripts) > 0
    /\ impl = "initialVersion" => Len(body.transcripts[1].segments) > 0

\* the handler ended, for a request with a transcript and an instruction,
\* without any generation call having failed
AnsweredByService ==
    /\ Done
    /\ NonEmptyTranscript
    /\ body.customPrompt.present
    /\ cause # "service"

EveryResponseMalformed ==
    /\ Len(received) > 0
    /\ \A k \in 1..Len(received) : received[k] = "malformed"

\* C3: for a request with a non-empty transcript and any instruction, whatever
\* the generation service returns for the final chunk, the handler ends with a
\* success result carrying a non-empty clip list, never with a 500.
C3_AsStated ==
    AnsweredByService => (res.status = 200 /\ Len(res.clips) > 0)

RequestedOrDefault ==
    IF body.customPrompt.seconds # Null THEN body.customPrompt.seconds ELSE 11000

\* C4: when the service returns malformed JSON on every call, the handler
\* returns exactly one clip made by fallback synthesis, whose duration is the
\* requested duration (11 s when none is named), and reports the fallback.
C4_AsStated ==
    (AnsweredByService /\ EveryResponseMalformed) =>
        /\ res.status = 200
        /\ Len(res.clips) = 1
        /\ clipSource = "fallback"
        /\ res.clips[1].endTime - res.clips[1].startTime = RequestedOrDefault
        /\ res.message = FallbackMessage

C21_AsStated ==
    (genPc # "start" /\ NonEmptyTranscript) =>
        /\ explicitDuration = body.customPrompt.seconds
        /\ isEndPart => (body.customPrompt.hasEnd \/ body.customPrompt.hasLast)
        /\ Len(transcriptChunks) > 0
        /\ cause # "TypeError" \/ Len(calls) > 0

\* the window d of the fallback: the explicit duration when the instruction
\* gives one, 11 s otherwise
FallbackWindow == IF explicitDuration # Null THEN explicitDuration ELSE 11000

\* C27 as stated: a fallback list is the single clip
\* [max(0, sourceDuration - d), sourceDuration]; its startTime is never
\* negative and its endTime never exceeds sourceDuration, also when the source
\* is shorter than d.
C27_AsStated ==
    (Done /\ clipSource = "fallback") =>
        /\ Len(clips) = 1
        /\ clips[1].startTime = Max(0, videoDuration - FallbackWindow)
        /\ clips[1].endTime = videoDuration
        /\ clips[1].startTime >= 0
        /\ clips[1].endTime <= videoDuration

\* the generation calls made for the final chunk, in order
FinalCalls == SelectSeq(calls, LAMBDA c : c.chunk = Len(transcriptChunks) - 1)

\* C28 as stated: the final chunk gets a first call at temperature 0.2 and one
\* more call at temperature 0 per failed parse or validation, 3 calls at most;
\* a fallback list is made only after the third attempt failed, and a failed
\* attempt never ends the request with an error.
C28_AsStated ==
    /\ Len(FinalCalls) <= maxAttempts
    /\ \A k \in 1..Len(FinalCalls) :
          FinalCalls[k].temperature = IF k = 1 THEN "0.2" ELSE "0"
    /\ (Done /\ clipSource = "fallback") => Len(FinalCalls) = maxAttempts
    /\ (Done /\ verdict \notin {"idle", "ok"}) =>
          /\ res.status = 200
          /\ clipSource = "fallback"

\* C32: the chunks are called one after another in chunk order: every call
\* but the last has been answered, the first call is for chunk 0, each later
\* call is for the next chunk (or again for the final chunk), and while a call
\* is awaited it is the call of the current chunk, issued after the responses
\* of all chunks before it were handled.
C32_ChunksInOrder ==
    /\ Len(calls) <= Len(received) + 1
    /\ Len(calls) > 0 => calls[1].chunk = 0
    /\ \A k \in 1..Len(calls) : calls[k].chunk < Len(transcriptChunks)
    /\ \A k \in 1..(Len(calls) - 1) :
          \/ calls[k + 1].chunk = calls[k].chunk + 1
          \/ /\ calls[k + 1].chunk = calls[k].chunk
             /\ calls[k].chunk = Len(transcriptChunks) - 1
    /\ genPc \in {"call", "retryCall"} =>
          /\ Len(calls) = Len(received) + 1
          /\ calls[Len(calls)].chunk = chunkIndex
          /\ Len(received) >= chunkIndex

\* the call of the third chunk is awaited after two answered calls whose
\* candidates are in the rolling buffer
C32_Witness ==
    /\ genPc = "call"
    /\ chunkIndex = 2
    /\ Len(calls) = 3
    /\ Len(received) = 2
    /\ Len(potentialSegments) > 0

\* C33: the rolling buffer never holds more than 30 candidates, and it is the
\* tail of the in-order concatenation of every candidate parsed from the
\* non-final chunks so far: all of it while that has at most 30 elements, its
\* last 30 otherwise.
C33_RollingBufferIsLast30 ==
    /\ Len(potentialSegments) <= 30
    /\ Len(potentialSegments) = IF Len(parsedSoFar) <= 30 THEN Len(parsedSoFar) ELSE 30
    /\ \A k \in 1..Len(potentialSegments) :
          potentialSegments[k] = parsedSoFar[Len(parsedSoFar) - Len(potentialSegments) + k]

\* 7 candidates of the first chunk and 26 of the second were parsed, and the
\* buffer starts at the fourth candidate of the first chunk
C33_Witness ==
    /\ Len(parsedSoFar) = 33
    /\ Len(potentialSegments) = 30
    /\ potentialSegments[1] = <<0, 4>>
    /\ potentialSegments[30] = <<1, 26>>

\* C34: a step that handles a non-final response from which no array could
\* be parsed leaves the rolling buffer as it was, makes the call of the next
\* chunk, and sends no response.
C34_ParseFailureIsSkipped ==
    [][ (genPc = "call" /\ ~IsLastChunk /\ received' = Append(received, "malformed")) =>
            /\ potentialSegments' = potentialSegments
            /\ chunkIndex' = chunkIndex + 1
            /\ calls' = Append(calls, [chunk |-> chunkIndex + 1, temperature |-> "0.2"])
            /\ genPc' = "call"
            /\ res' = NoResponse ]_vars

\* the second chunk's response could not be parsed: the 7 candidates of the
\* first chunk are still the buffer and the third chunk's call is awaited
C34_Witness ==
    /\ received = <<"array", "malformed">>
    /\ Len(potentialSegments) = 7
    /\ genPc = "call"
    /\ chunkIndex = 2
    /\ res = NoResponse

\* C36 as stated: a handler that has ended for a request with a non-empty
\* transcripts array has sent a response, also when chunking yielded no chunk.
C36_AsStated ==
    (Done /\ Len(body.transcripts) > 0) => res # NoResponse

\* the only part of a 200 response that can tell a fallback list from a model
\* list: the message (no response has a usedFallback field)
ReportsFallback == res.message = FallbackMessage

\* C20 as stated: a success response reports a fallback exactly when its clip
\* list was made by fallback synthesis, and reports none exactly when its
\* list is a model-produced list that passed validation.
C20_AsStated ==
    (Done /\ res.status = 200) =>
        /\ clipSource \in {"model", "fallback"}
        /\ ReportsFallback <=> clipSource = "fallback"

-----------------------------------------------------------------------------
(* resolveVideoPath (videoMergeClips.js and part_008 hold the same text) *)

\* A file name is the sequence of its pieces between backslashes: "abc.mp4" is
\* <<"abc.mp4">> and "uploads\abc.mp4" is <<"uploads", "abc.mp4">>.  A path is
\* [abs, parts]: whether it starts with "/", and its names between slashes
\* (POSIX paths: the backslash is not a separator).
Name(text) == <<text>>

Path(abs, parts) == [abs |-> abs, parts |-> parts]

\* process.env.UPLOADS_DIR || '/app/backend/uploads'
uploadsBase == Path(TRUE, <<Name("app"), Name("backend"), Name("uploads")>>)

\* path.basename(filePath)
basename(p) == p.parts[Len(p.parts)]

\* filePath.replace(/\\/g, '/'): every backslash becomes a separator
ReplaceBackslashes(p) ==
    LET pieces == Flatten(p.parts)
    IN  Path(p.abs, [k \in 1..Len(pieces) |-> Name(pieces[k])])

\* normalizedFilePath.startsWith('uploads/') and startsWith('backend/uploads/')
startsWith(p, prefix) ==
    /\ ~p.abs
    /\ Len(p.parts) > Len(prefix)
    /\ SubSeq(p.parts, 1, Len(prefix)) = prefix

\* normalizedFilePath.slice(8) and .slice(16): the text after the prefix
slice(p, prefix) == Path(FALSE, SubSeq(p.parts, Len(prefix) + 1, Len(p.parts)))

\* path.normalize(p): "." and the empty name between two slashes are dropped,
\* ".." removes the name before it
RECURSIVE NormalizeParts(_, _, _)
NormalizeParts(abs, parts, acc) ==
    IF parts = <<>> THEN acc
    ELSE LET head == Head(parts)
             rest == Tail(parts)
         IN  IF head = Name(".") \/ head = Name("") THEN NormalizeParts(abs, rest, acc)
             ELSE IF head = Name("..")
                  THEN IF acc # <<>> /\ acc[Len(acc)] # Name("..")
                       THEN NormalizeParts(abs, rest, SubSeq(acc, 1, Len(acc) - 1))
                       ELSE IF abs THEN NormalizeParts(abs, rest, acc)
                            ELSE NormalizeParts(abs, rest, Append(acc, head))
                  ELSE NormalizeParts(abs, rest, Append(acc, head))

normalize(p) == Path(p.abs, NormalizeParts(p.abs, p.parts, <<>>))

\* path.join(base, rest): concatenation, then normalization
join(base, rest) == normalize(Path(base.abs, base.parts \o rest.parts))

UploadsPrefix == <<Name("uploads")>>
BackendUploadsPrefix == <<Name("backend"), Name("uploads")>>

possiblePaths_RootFirst(ref) ==
    LET filename == Path(FALSE, <<basename(ref)>>)
        normalizedFilePath == ReplaceBackslashes(ref)
    IN  << join(uploadsBase, filename),
           normalizedFilePath,
           join(uploadsBase, IF startsWith(normalizedFilePath, UploadsPrefix)
                             THEN slice(normalizedFilePath, UploadsPrefix)
                             ELSE filename),
           join(uploadsBase, IF startsWith(normalizedFilePath, BackendUploadsPrefix)
                             THEN slice(normalizedFilePath, BackendUploadsPrefix)
                             ELSE filename) >>

\* const possiblePaths = [ ... ]
possiblePaths(ref) ==
    LET filename == Path(FALSE, <<basename(ref)>>)
        normalizedFilePath == ReplaceBackslashes(ref)
    IN  << normalizedFilePath,
           join(uploadsBase, filename),
           join(uploadsBase, IF startsWith(normalizedFilePath, UploadsPrefix)
                             THEN slice(normalizedFilePath, UploadsPrefix)
                             ELSE filename),
           join(uploadsBase, IF startsWith(normalizedFilePath, BackendUploadsPrefix)
                             THEN slice(normalizedFilePath, BackendUploadsPrefix)
                             ELSE filename) >>

existsSync_Always(p, d) == TRUE

\* fs.existsSync(p) on a filesystem where the paths of d exist; a relative path
\* is looked up from the current working directory
existsSync(p, d) == p \in d

\* the stored references: a bare file name, references with a legacy prefix, an
\* absolute path of a previous deployment, a Windows-style reference, a
\* reference with a ".." in it, and the remote URL
\* "https://cdn.example.com/abc.mp4"
SampleReferences ==
    { Path(FALSE, <<Name("abc.mp4")>>),
      Path(FALSE, <<Name("uploads"), Name("abc.mp4")>>),
      Path(FALSE, <<Name("uploads"), Name("2024"), Name("abc.mp4")>>),
      Path(FALSE, <<Name("backend"), Name("uploads"), Name("2024"), Name("abc.mp4")>>),
      Path(TRUE,  <<Name("srv"), Name("old"), Name("uploads"), Name("abc.mp4")>>),
      Path(FALSE, << <<"uploads", "abc.mp4">> >>),
      Path(FALSE, <<Name("tmp"), Name(".."), Name("abc.mp4")>>),
      Path(FALSE, <<Name("https:"), Name(""), Name("cdn.example.com"), Name("abc.mp4")>>) }

\* the files that may exist: every location a sample reference can point at,
\* and one unrelated file in the upload root
SampleFiles ==
    UNION { {normalize(c) : c \in Range(possiblePaths(ref))} : ref \in SampleReferences }
      \cup { join(uploadsBase, Path(FALSE, <<Name("other.mp4")>>)) }

\* the for loop from position k on: the first candidate that exists
RECURSIVE FirstExisting(_, _, _)
FirstExisting(candidates, d, k) ==
    IF k > Len(candidates) THEN 0
    ELSE IF existsSync(normalize(candidates[k]), d) THEN k
         ELSE FirstExisting(candidates, d, k + 1)

\* resolveVideoPath(filePath) on the filesystem d: the path returned, or the
\* list carried by the error thrown
resolveVideoPath(ref, d) ==
    LET k == FirstExisting(possiblePaths(ref), d, 1)
    IN  IF k = 0
        THEN [threw |-> TRUE, path |-> NoPath, paths |-> possiblePaths(ref)]
        ELSE [threw |-> FALSE, path |-> normalize(possiblePaths(ref)[k]), paths |-> <<>>]

ResolveInit ==
    /\ ChunkIdle
    /\ ValidateIdle
    /\ RetryIdle
    /\ GenIdle
    /\ MergeIdle
    /\ JobsIdle
    /\ filePath \in SampleReferences
    /\ disk \in SUBSET SampleFiles
    /\ candidateIndex = 1
    /\ resolvedPath = NoPath
    /\ triedPaths = <<>>
    /\ pathPc = "loop"

\* an iteration whose candidate exists: `return normalizedPath`
CandidateExists ==
    /\ pathPc = "loop"
    /\ candidateIndex <= Len(possiblePaths(filePath))
    /\ existsSync(normalize(possiblePaths(filePath)[candidateIndex]), disk)
    /\ resolvedPath' = normalize(possiblePaths(filePath)[candidateIndex])
    /\ pathPc' = "returned"
    /\ UNCHANGED <<filePath, disk, candidateIndex, triedPaths,
                   chunkVars, validateVars, retryVars, genVars, mergeVars, jobVars>>

\* an iteration whose candidate does not exist
CandidateMissing ==
    /\ pathPc = "loop"
    /\ candidateIndex <= Len(possiblePaths(filePath))
    /\ ~existsSync(normalize(possiblePaths(filePath)[candidateIndex]), disk)
    /\ candidateIndex' = candidateIndex + 1
    /\ UNCHANGED <<filePath, disk, resolvedPath, triedPaths, pathPc,
                   chunkVars, validateVars, retryVars, genVars, mergeVars, jobVars>>

\* the loop ends without a return: the error with possiblePaths is thrown
NoCandidateExists ==
    /\ pathPc = "loop"
    /\ candidateIndex > Len(possiblePaths(filePath))
    /\ triedPaths' = possiblePaths(filePath)
    /\ pathPc' = "thrown"
    /\ UNCHANGED <<filePath, disk, candidateIndex, resolvedPath,
                   chunkVars, validateVars, retryVars, genVars, mergeVars, jobVars>>

ResolveNext == CandidateExists \/ CandidateMissing \/ NoCandidateExists

SpecResolve == ResolveInit /\ [][ResolveNext]_vars

-----------------------------------------------------------------------------
(* Claims on resolveVideoPath, under SpecResolve *)

BareName == Path(FALSE, <<Name("abc.mp4")>>)

\* the upload root joined with the bare file name
RootJoined == Path(TRUE, <<Name("app"), Name("backend"), Name("uploads"), Name("abc.mp4")>>)

CallEnded == pathPc \in {"returned", "thrown"}

\* C18 as stated: for the bare file name "abc.mp4" and an upload root that
\* holds the file, the call returns the root-joined absolute path whatever else
\* exists on the filesystem; a call that matches no candidate fails with an
\* error listing four candidates.
C18_AsStated ==
    /\ (CallEnded /\ filePath = BareName /\ RootJoined \in disk) =>
          (pathPc = "returned" /\ resolvedPath = RootJoined)
    /\ pathPc = "thrown" => Len(triedPaths) = 4

\* C18: for the bare file name "abc.mp4" and an upload root that holds the
\* file, the call returns the root-joined absolute path unless a file of that
\* name is reachable from the current working directory, and then it returns
\* the relative name as given; a call that matches no candidate fails with an
\* error listing four candidates (for a bare name: the name as given, and the
\* root-joined path three times).
C18_BareNameResolution ==
    /\ (CallEnded /\ filePath = BareName /\ RootJoined \in disk) =>
          /\ pathPc = "returned"
          /\ resolvedPath = IF BareName \in disk THEN BareName ELSE RootJoined
    /\ pathPc = "thrown" =>
          /\ Len(triedPaths) = 4
          /\ \A k \in 1..4 : normalize(triedPaths[k]) \notin disk
          /\ filePath = BareName =>
                triedPaths = <<BareName, RootJoined, RootJoined, RootJoined>>

\* C18 witness: the bare name, found in the upload root only.
C18_Witness ==
    /\ pathPc = "returned"
    /\ filePath = BareName
    /\ RootJoined \in disk
    /\ BareName \notin disk
    /\ resolvedPath = RootJoined
    /\ candidateIndex = 2

\* the reference "uploads/2024/abc.mp4" and its four candidates, in order
PrefixedReference == Path(FALSE, <<Name("uploads"), Name("2024"), Name("abc.mp4")>>)

PrefixedCandidates ==
    << PrefixedReference,
       RootJoined,
       Path(TRUE, <<Name("app"), Name("backend"), Name("uploads"), Name("2024"), Name("abc.mp4")>>),
       RootJoined >>

\* C19: the candidates are tried in a fixed order (the reference as given with
\* its backslashes turned into slashes, upload root + basename, upload root +
\* reference without its legacy prefix), the call returns the first candidate
\* that exists, a returned path exists, and when no candidate exists the call
\* throws an error that lists every candidate and returns no path.
C19_FirstExistingCandidate ==
    /\ pathPc = "returned" =>
          /\ resolvedPath \in disk
          /\ resolvedPath = normalize(possiblePaths(filePath)[candidateIndex])
          /\ \A j \in 1..(candidateIndex - 1) :
                normalize(possiblePaths(filePath)[j]) \notin disk
          /\ triedPaths = <<>>
    /\ pathPc = "thrown" =>
          /\ resolvedPath = NoPath
          /\ triedPaths = possiblePaths(filePath)
          /\ \A c \in Range(possiblePaths(filePath)) : normalize(c) \notin disk
    /\ (CallEnded /\ filePath = PrefixedReference) =>
          /\ possiblePaths(filePath) = PrefixedCandidates
          /\ LET k == FirstExisting(PrefixedCandidates, disk, 1)
             IN  IF k = 0 THEN pathPc = "thrown"
                 ELSE pathPc = "returned" /\ resolvedPath = PrefixedCandidates[k]
    /\ CallEnded =>
          LET r == resolveVideoPath(filePath, disk)
          IN  /\ r.threw <=> pathPc = "thrown"
              /\ r.path = resolvedPath
              /\ r.paths = triedPaths

\* C19 witness: the third candidate is returned although a later candidate and
\* an unrelated file exist too.
C19_Witness ==
    /\ pathPc = "returned"
    /\ filePath = PrefixedReference
    /\ candidateIndex = 3
    /\ resolvedPath = PrefixedCandidates[3]
    /\ join(uploadsBase, Path(FALSE, <<Name("other.mp4")>>)) \in disk

-----------------------------------------------------------------------------
(* videoMergeClips: videoMergeClips.js and part_008 *)

\* longest clips argument given to videoMergeClips
MaxMergeClips == 2

\* a string holding the decimal text of a number, e.g. "5" (ms kept as for numbers)
NumericString(ms) == [kind |-> "string", ms |-> ms]

\* typeof v
typeof(v) == IF v.kind = "NaN" THEN "number" ELSE v.kind

\* the conversion to number that `-` applies to its operands
ToNumber(v) ==
    IF v.kind = "string" THEN Number(v.ms)
    ELSE IF v.kind = "undefined" THEN NaN
    ELSE v

\* a - b
Minus(a, b) ==
    IF ToNumber(a).kind = "NaN" \/ ToNumber(b).kind = "NaN" THEN NaN
    ELSE Number(ToNumber(a).ms - ToNumber(b).ms)

\* a + b on numbers
Plus(a, b) == IF a.kind = "NaN" \/ b.kind = "NaN" THEN NaN ELSE Number(a.ms + b.ms)

\* v <= 0: false on NaN
AtMostZero(v) == v.kind = "number" /\ v.ms <= 0

\* !v
Falsy(v) == v.kind \in {"undefined", "NaN"} \/ (v.kind = "number" /\ v.ms = 0)

\* the source records of the database: Video.findById answers null for "gone";
\* the record of v2 has no thumbnailUrl
VideoIds == {"v1", "v2", "gone"}

findById(videoId) ==
    IF videoId = "v1"
    THEN [found |-> TRUE, videoUrl |-> Path(FALSE, <<Name("abc.mp4")>>),
          thumbnailUrl |-> "thumbnails/abc.jpg"]
    ELSE IF videoId = "v2"
    THEN [found |-> TRUE, videoUrl |-> Path(FALSE, <<Name("uploads"), Name("other.mp4")>>),
          thumbnailUrl |-> "undefined"]
    ELSE [found |-> FALSE, videoUrl |-> NoPath, thumbnailUrl |-> "undefined"]

\* the filesystems of a merge job: both source files in the upload root, only
\* the file of v1, or neither
SampleMergeDisks ==
    { { join(uploadsBase, Path(FALSE, <<Name("abc.mp4")>>)),
        join(uploadsBase, Path(FALSE, <<Name("other.mp4")>>)) },
      { join(uploadsBase, Path(FALSE, <<Name("abc.mp4")>>)) },
      {} }

RequestClip(videoId, startTime, endTime) ==
    [videoId |-> videoId, startTime |-> startTime, endTime |-> endTime]

\* the clips a request is made of: two valid 5 s clips, an empty and a reversed
\* range, times given as strings, a missing startTime, an unknown video
SampleRequestClips ==
    { RequestClip("v1", Number(0), Number(5000)),
      RequestClip("v2", Number(5000), Number(10000)),
      RequestClip("v1", Number(7000), Number(7000)),
      RequestClip("v1", Number(9000), Number(4000)),
      RequestClip("v1", NumericString(0), NumericString(5000)),
      RequestClip("v1", Undefined, Number(5000)),
      RequestClip("gone", Number(0), Number(5000)) }

RECURSIVE Requests(_)
Requests(n) ==
    IF n = 0 THEN {<<>>}
    ELSE Requests(n - 1) \cup
         {Append(r, c) : r \in {q \in Requests(n - 1) : Len(q) = n - 1}, c \in SampleRequestClips}

\* videoMergeClips.js, lines 138-149: what the callback of clips.map throws
\* for one clip, "none" when it returns.  (The existsSync of line 141 repeats
\* the test resolveVideoPath has just made on the same path.)
ClipError_videoMergeClips(clip, d) ==
    IF ~findById(clip.videoId).found THEN "Video not found"
    ELSE IF resolveVideoPath(findById(clip.videoId).videoUrl, d).threw
         THEN "Could not resolve path"
    ELSE IF typeof(clip.startTime) # "number" \/ typeof(clip.endTime) # "number"
         THEN "Start and end times must be numbers"
    ELSE IF AtMostZero(Minus(clip.endTime, clip.startTime)) THEN "Invalid duration"
    ELSE "none"

\* part_008, lines 140-147: no test of the times
ClipError_part008(clip, d) ==
    IF ~findById(clip.videoId).found THEN "Video not found"
    ELSE IF resolveVideoPath(findById(clip.videoId).videoUrl, d).threw
         THEN "Could not resolve path"
    ELSE "none"

ClipError(which, clip, d) ==
    IF which = "part_008" THEN ClipError_part008(clip, d)
    ELSE ClipError_videoMergeClips(clip, d)

\* the object the callback returns for a clip
ClipDetail(clip, d) ==
    [path |-> resolveVideoPath(findById(clip.videoId).videoUrl, d).path,
     startTime |-> clip.startTime,
     endTime |-> clip.endTime,
     duration |-> Minus(clip.endTime, clip.startTime),
     videoId |-> clip.videoId,
     thumbnail |-> findById(clip.videoId).thumbnailUrl]

\* totalDuration after every callback has run `totalDuration += duration`
RECURSIVE SumDurations(_)
SumDurations(details) ==
    IF details = <<>> THEN Number(0)
    ELSE Plus(Head(details).duration, SumDurations(Tail(details)))

Rejected(reason) == [state |-> "rejected", reason |-> reason]

Resolved == [state |-> "resolved", reason |-> "none"]

MergeInit ==
    /\ ChunkIdle
    /\ ValidateIdle
    /\ RetryIdle
    /\ GenIdle
    /\ JobsIdle
    /\ filePath = NoPath
    /\ disk \in SampleMergeDisks
    /\ candidateIndex = 0
    /\ resolvedPath = NoPath
    /\ triedPaths = <<>>
    /\ pathPc = "idle"
    /\ mergeImpl \in {"videoMergeClips.js", "part_008"}
    /\ mergeRequest \in Requests(MaxMergeClips)
    /\ tempDir = FALSE
    /\ outputFile = FALSE
    /\ thumbFile = FALSE
    /\ spawned = 0
    /\ ffmpeg = "none"
    /\ timeout = "unset"
    /\ lookupOrder = <<>>
    /\ clipDetails = <<>>
    /\ thumbnailUrl = "unset"
    /\ totalDuration = Number(0)
    /\ produced = [size |-> "none", duration |-> Undefined]
    /\ probed = FALSE
    /\ uploaded = <<>>
    /\ saved = <<>>
    /\ outcome = Pending
    /\ cancelRequested = FALSE
    /\ mergePc = "start"

\* `if (!clips?.length) throw new Error('No clips provided')`
NoClipsProvided ==
    /\ mergePc = "start"
    /\ mergeRequest = <<>>
    /\ outcome' = Rejected("No clips provided")
    /\ mergePc' = "done"
    /\ UNCHANGED <<cancelRequested, mergeImpl, mergeRequest, lookupOrder, thumbnailUrl, tempDir, outputFile, thumbFile, spawned, ffmpeg,
                   timeout, clipDetails, totalDuration, produced, probed, uploaded, saved,
                   chunkVars, validateVars, retryVars, genVars, pathVars, jobVars>>

\* the directories are made and Promise.all rejects with the error of a clip
\* whose callback threw; the catch rethrows it
ResolvingFails ==
    /\ mergePc = "start"
    /\ mergeRequest # <<>>
    /\ \E k \in 1..Len(mergeRequest) :
          /\ ClipError(mergeImpl, mergeRequest[k], disk) # "none"
          /\ outcome' = Rejected(ClipError(mergeImpl, mergeRequest[k], disk))
    /\ tempDir' = TRUE
    /\ mergePc' = "done"
    /\ UNCHANGED <<cancelRequested, mergeImpl, mergeRequest, lookupOrder, thumbnailUrl, outputFile, thumbFile, spawned, ffmpeg,
                   timeout, clipDetails, totalDuration, produced, probed, uploaded, saved,
                   chunkVars, validateVars, retryVars, genVars, pathVars, jobVars>>

\* the orders in which n concurrent lookups can complete
CompletionOrders(n) ==
    {o \in [1..n -> 1..n] : \A a, b \in 1..n : o[a] = o[b] => a = b}

PromiseAll_CompletionOrder(results, order) ==
    [k \in 1..Len(results) |-> results[order[k]]]

\* Promise.all(clips.map(async ...)): the array of the callbacks' results, each
\* at the index of its clip, whatever the order in which they settle
PromiseAll(results, order) == results

\* clipDetails.forEach(clip => command.input(clip.path).inputOptions(...)):
\* the inputs of the command, in order, each with its -ss and -to
CommandInputs(details) ==
    [k \in 1..Len(details) |->
        [input |-> details[k].path, ss |-> details[k].startTime, to |-> details[k].endTime]]

\* the directories are made, every callback returns, and the ffmpeg command is
\* built from clipDetails and handed to save(outputPath)
ResolvingSucceeds ==
    /\ mergePc = "start"
    /\ mergeRequest # <<>>
    /\ \A k \in 1..Len(mergeRequest) : ClipError(mergeImpl, mergeRequest[k], disk) = "none"
    /\ tempDir' = TRUE
    /\ \E order \in CompletionOrders(Len(mergeRequest)) :
          /\ lookupOrder' = order
          /\ clipDetails' = PromiseAll([k \in 1..Len(mergeRequest) |->
                                            ClipDetail(mergeRequest[k], disk)], order)
    /\ totalDuration' = SumDurations(clipDetails')
    /\ mergePc' = "spawn"
    /\ UNCHANGED <<cancelRequested, mergeImpl, mergeRequest, thumbnailUrl, outputFile, thumbFile, spawned, ffmpeg,
                   timeout, produced, probed, uploaded, saved, outcome,
                   chunkVars, validateVars, retryVars, genVars, pathVars, jobVars>>

\* what the subprocess may have written when it ends with success: an empty
\* file, or a file whose true duration is missing, zero, or a positive length
\* that is or is not the sum of the 5 s clips asked for
ProducedFiles ==
    { [size |-> "zero", duration |-> Undefined],
      [size |-> "positive", duration |-> Undefined],
      [size |-> "positive", duration |-> Number(0)],
      [size |-> "positive", duration |-> Number(5000)],
      [size |-> "positive", duration |-> Number(10000)],
      [size |-> "positive", duration |-> Number(10040)] }

\* the 'start' event: the subprocess runs and the 30 minute timer is armed
FfmpegStarts ==
    /\ mergePc = "spawn"
    /\ spawned' = spawned + 1
    /\ ffmpeg' = "running"
    /\ timeout' = "armed"
    /\ mergePc' = "running"
    /\ UNCHANGED <<cancelRequested, mergeImpl, mergeRequest, lookupOrder, thumbnailUrl, tempDir, outputFile, thumbFile, clipDetails,
                   totalDuration, produced, probed, uploaded, saved, outcome,
                   chunkVars, validateVars, retryVars, genVars, pathVars, jobVars>>

\* the 'error' event without a 'start': the subprocess could not be started
SpawnFails ==
    /\ mergePc = "spawn"
    /\ ffmpeg' = "failed"
    /\ outcome' = Rejected("Merge failed")
    /\ mergePc' = "done"
    /\ UNCHANGED <<cancelRequested, mergeImpl, mergeRequest, lookupOrder, thumbnailUrl, tempDir, outputFile, thumbFile, spawned, timeout,
                   clipDetails, totalDuration, produced, probed, uploaded, saved,
                   chunkVars, validateVars, retryVars, genVars, pathVars, jobVars>>

clearTimeout_Noop(t) == t

\* clearTimeout(timeout): a timer that is armed is cancelled; one that was
\* never set or has fired is left as it is
clearTimeout(t) == IF t = "armed" THEN "cleared" ELSE t

\* the 'error' event of a running subprocess: clearTimeout and reject; the
\* subprocess may have left a partial output file
FfmpegFails ==
    /\ mergePc = "running"
    /\ ffmpeg = "running"
    /\ ffmpeg' = "failed"
    /\ timeout' = clearTimeout(timeout)
    /\ outputFile' \in BOOLEAN
    /\ outcome' = Rejected("Merge failed")
    /\ mergePc' = "done"
    /\ UNCHANGED <<cancelRequested, mergeImpl, mergeRequest, lookupOrder, thumbnailUrl, tempDir, thumbFile, spawned, clipDetails,
                   totalDuration, produced, probed, uploaded, saved,
                   chunkVars, validateVars, retryVars, genVars, pathVars, jobVars>>

\* the timer callback runs, 30 minutes after 'start', unless the timer was
\* cleared.  videoMergeClips.js: command.kill('SIGKILL').  part_008:
\* ffmpegProcess holds the command line (a string), ffmpegProcess.pid is
\* undefined and process.kill(undefined, 'SIGKILL') throws a TypeError out of
\* the timer callback: the subprocess is not signalled, and the Node process
\* ends unless an uncaughtException handler keeps it alive.
TimeoutExpires ==
    /\ timeout = "armed"
    /\ timeout' = "expired"
    /\ IF mergeImpl = "videoMergeClips.js"
       THEN /\ ffmpeg' = "killed"
            /\ mergePc' = "killed"
       ELSE /\ ffmpeg' = ffmpeg
            /\ mergePc' \in {"crashed", "running"}
    /\ UNCHANGED <<cancelRequested, mergeImpl, mergeRequest, lookupOrder, thumbnailUrl, tempDir, outputFile, thumbFile, spawned,
                   clipDetails, totalDuration, produced, probed, uploaded, saved, outcome,
                   chunkVars, validateVars, retryVars, genVars, pathVars, jobVars>>

\* the 'error' event of the killed subprocess
KilledReported ==
    /\ mergePc = "killed"
    /\ outputFile' \in BOOLEAN
    /\ outcome' = Rejected("Merge failed")
    /\ mergePc' = "done"
    /\ UNCHANGED <<cancelRequested, mergeImpl, mergeRequest, lookupOrder, thumbnailUrl, tempDir, thumbFile, spawned, ffmpeg, timeout,
                   clipDetails, totalDuration, produced, probed, uploaded, saved,
                   chunkVars, validateVars, retryVars, genVars, pathVars, jobVars>>

\* the 'end' event: clearTimeout.  videoMergeClips.js then stats the output
\* file and rejects when its size is 0; part_008 goes on to the thumbnail.
FfmpegEnds ==
    /\ mergePc = "running"
    /\ ffmpeg = "running"
    /\ ffmpeg' = "ended"
    /\ timeout' = clearTimeout(timeout)
    /\ produced' \in ProducedFiles
    /\ outputFile' = TRUE
    /\ IF mergeImpl = "videoMergeClips.js"
       THEN IF produced'.size = "zero"
            THEN /\ outcome' = Rejected("Merged video file is empty")
                 /\ mergePc' = "done"
            ELSE /\ outcome' = outcome
                 /\ mergePc' = "probe"
       ELSE /\ outcome' = outcome
            /\ mergePc' = "thumbnail"
    /\ UNCHANGED <<cancelRequested, mergeImpl, mergeRequest, lookupOrder, thumbnailUrl, tempDir, thumbFile, spawned, clipDetails,
                   totalDuration, probed, uploaded, saved,
                   chunkVars, validateVars, retryVars, genVars, pathVars, jobVars>>

\* !actualDuration || actualDuration <= 0
ZeroDuration(actualDuration) == Falsy(actualDuration) \/ AtMostZero(actualDuration)

\* videoMergeClips.js, lines 189-193: ffprobe answers with an error, or with
\* the metadata of the produced file
Probed ==
    /\ mergePc = "probe"
    /\ \E err \in BOOLEAN :
          IF err
          THEN /\ outcome' = Rejected("ffprobe failed")
               /\ mergePc' = "done"
               /\ UNCHANGED <<probed, totalDuration>>
          ELSE /\ probed' = TRUE
               /\ IF ZeroDuration(produced.duration)
                  THEN /\ outcome' = Rejected("Merged video has zero duration")
                       /\ mergePc' = "done"
                       /\ totalDuration' = totalDuration
                  ELSE /\ totalDuration' = produced.duration
                       /\ outcome' = outcome
                       /\ mergePc' = "thumbnail"
    /\ UNCHANGED <<cancelRequested, mergeImpl, mergeRequest, lookupOrder, thumbnailUrl, tempDir, outputFile, thumbFile, spawned, ffmpeg,
                   timeout, clipDetails, produced, uploaded, saved,
                   chunkVars, validateVars, retryVars, genVars, pathVars, jobVars>>

\* whether the thumbnail file is left on disk after the thumbnail step.
\* videoMergeClips.js unlinks it whenever it exists; part_008 unlinks it only
\* after its upload succeeded.
ThumbLeft(which, generated, stored) ==
    IF which = "part_008" THEN generated /\ ~stored ELSE FALSE

FirstClipThumbnail_Empty(details) == ""

\* `clipDetails[0]?.thumbnail || ''`
FirstClipThumbnail(details) ==
    IF Len(details) = 0 \/ details[1].thumbnail \in {"undefined", ""} THEN ""
    ELSE details[1].thumbnail

\* the URL uploadToS3 resolves with for the thumbnail of the job
ThumbUrl == "merged-videos/thumbs/thumb.jpg"

\* the thumbnail is generated and uploaded; a failure of either is caught and
\* the thumbnail of the first clip is used instead
ThumbnailDone ==
    /\ mergePc = "thumbnail"
    /\ \E generated \in BOOLEAN, stored \in BOOLEAN :
          /\ uploaded' = IF generated /\ stored THEN Append(uploaded, "thumb") ELSE uploaded
          /\ thumbFile' = ThumbLeft(mergeImpl, generated, stored)
          /\ thumbnailUrl' = IF generated /\ stored THEN ThumbUrl
                             ELSE FirstClipThumbnail(clipDetails)
    /\ mergePc' = "upload"
    /\ UNCHANGED <<cancelRequested, mergeImpl, mergeRequest, lookupOrder, tempDir, outputFile, spawned, ffmpeg, timeout,
                   clipDetails, totalDuration, produced, probed, saved, outcome,
                   chunkVars, validateVars, retryVars, genVars, pathVars, jobVars>>

UploadRejects_Never(stored) == FALSE

\* `await uploadToS3(outputPath, ...)` throws when the upload fails
UploadRejects(stored) == ~stored

\* the upload of the merged video
UploadDone ==
    /\ mergePc = "upload"
    /\ \E stored \in BOOLEAN :
          IF UploadRejects(stored)
          THEN /\ outcome' = Rejected("upload failed")
               /\ mergePc' = "done"
               /\ uploaded' = uploaded
          ELSE /\ uploaded' = IF stored THEN Append(uploaded, "video") ELSE uploaded
               /\ outcome' = outcome
               /\ mergePc' = "save"
    /\ UNCHANGED <<cancelRequested, mergeImpl, mergeRequest, lookupOrder, thumbnailUrl, tempDir, outputFile, thumbFile, spawned, ffmpeg,
                   timeout, clipDetails, totalDuration, produced, probed, saved,
                   chunkVars, validateVars, retryVars, genVars, pathVars, jobVars>>

\* new FinalVideo({...})
FinalVideo ==
    [duration |-> totalDuration,
     s3Url |-> "merged",
     thumbnailUrl |-> thumbnailUrl,
     totalClips |-> Len(clipDetails),
     statsTotalDuration |-> totalDuration]

\* how the statements from the save to the resolve can end: save() rejects,
\* rmSync or unlinkSync throws (permissions, a file already gone), or all return
SaveResults == {"save rejects", "rmSync throws", "unlinkSync throws", "ok"}

\* `await finalVideo.save()`, then the cleanup and resolve; a throw of any of
\* them is caught and rejects
SaveDone ==
    /\ mergePc = "save"
    /\ \E result \in SaveResults :
          /\ saved' = IF result = "save rejects" THEN saved ELSE Append(saved, FinalVideo)
          /\ tempDir' = IF result \in {"unlinkSync throws", "ok"} THEN FALSE ELSE tempDir
          /\ outputFile' = IF result = "ok" THEN FALSE ELSE outputFile
          /\ outcome' = IF result = "ok" THEN Resolved
                        ELSE IF result = "save rejects" THEN Rejected("save failed")
                        ELSE Rejected("cleanup failed")
    /\ mergePc' = "done"
    /\ UNCHANGED <<cancelRequested, mergeImpl, mergeRequest, lookupOrder, thumbnailUrl, thumbFile, spawned, ffmpeg, timeout,
                   clipDetails, totalDuration, produced, probed, uploaded,
                   chunkVars, validateVars, retryVars, genVars, pathVars, jobVars>>

\* the caller asks for the job to be cancelled while the subprocess runs.
\* videoMergeClips(clips, user, videoInfo) takes no signal and hands out no
\* handle of the command: no statement of the job reads the request.
CancelRequested ==
    /\ mergePc = "running"
    /\ ffmpeg = "running"
    /\ ~cancelRequested
    /\ cancelRequested' = TRUE
    /\ UNCHANGED <<mergeImpl, mergeRequest, lookupOrder, thumbnailUrl, tempDir, outputFile,
                   thumbFile, spawned, ffmpeg, timeout, clipDetails, totalDuration, produced,
                   probed, uploaded, saved, outcome, mergePc,
                   chunkVars, validateVars, retryVars, genVars, pathVars, jobVars>>

MergeNext ==
    \/ NoClipsProvided
    \/ ResolvingFails
    \/ ResolvingSucceeds
    \/ FfmpegStarts
    \/ SpawnFails
    \/ FfmpegFails
    \/ TimeoutExpires
    \/ KilledReported
    \/ FfmpegEnds
    \/ Probed
    \/ ThumbnailDone
    \/ UploadDone
    \/ SaveDone
    \/ CancelRequested

SpecMerge == MergeInit /\ [][MergeNext]_vars

\* longest clips argument of the jobs followed to their end
MaxLiveMergeClips == 1

\* the jobs followed to their end: short requests, every source file on disk
MergeLiveInit ==
    /\ MergeInit
    /\ Len(mergeRequest) <= MaxLiveMergeClips
    /\ \A d \in SampleMergeDisks : d \subseteq disk

\* the event loop runs every callback that is due
SpecMergeLive == MergeLiveInit /\ [][MergeNext]_vars /\ WF_vars(MergeNext)

-----------------------------------------------------------------------------
(* Claims on videoMergeClips, under SpecMerge and SpecMergeLive *)

\* videoMergeClips has resolved or rejected
Settled == outcome.state \in {"resolved", "rejected"}

\* C12 as stated: once videoMergeClips has resolved or rejected, on whatever
\* exit path, the job's temp directory, its local output file and its local
\* thumbnail file no longer exist.
C12_AsStated == Settled => (~tempDir /\ ~outputFile /\ ~thumbFile)

\* C13: the FinalVideo record is saved at most once in a job, and only after
\* the upload of the merged video has succeeded: a job whose upload failed or
\* has not completed has saved no record.
C13_SavedOnceAfterUpload ==
    /\ Len(saved) <= 1
    /\ saved # <<>> =>
          /\ uploaded # <<>>
          /\ uploaded[Len(uploaded)] = "video"
    /\ "video" \notin Range(uploaded) => saved = <<>>
    /\ outcome = Rejected("upload failed") => (saved = <<>> /\ "video" \notin Range(uploaded))
    /\ mergePc \in {"start", "spawn", "running", "killed", "probe", "thumbnail", "upload"} =>
          saved = <<>>

\* C13 witness: a job that uploaded the merged video and then saved its one
\* record.
C13_Witness ==
    /\ outcome = Resolved
    /\ Len(saved) = 1
    /\ "video" \in Range(uploaded)

\* a clip that the resolving step has to refuse
NoSourceRecord(clip) == ~findById(clip.videoId).found

UnresolvableFile(clip) ==
    /\ findById(clip.videoId).found
    /\ resolveVideoPath(findById(clip.videoId).videoUrl, disk).threw

NonNumericTimes(clip) == clip.startTime.kind # "number" \/ clip.endTime.kind # "number"

StartNotBeforeEnd(clip) ==
    /\ clip.startTime.kind = "number"
    /\ clip.endTime.kind = "number"
    /\ clip.startTime.ms >= clip.endTime.ms

HasBadClip ==
    \E k \in 1..Len(mergeRequest) :
        \/ NoSourceRecord(mergeRequest[k])
        \/ UnresolvableFile(mergeRequest[k])
        \/ NonNumericTimes(mergeRequest[k])
        \/ StartNotBeforeEnd(mergeRequest[k])

\* C14 as stated: when a clip of the request has no source record, an
\* unresolvable file, a non-numeric startTime or endTime, or startTime >=
\* endTime, the job fails and the subprocess is never started for it.
C14_AsStated ==
    HasBadClip =>
        /\ spawned = 0
        /\ mergePc = "done" => outcome.state = "rejected"

\* C15 as stated: a subprocess still running when the 30 minute timer expires
\* is forcibly terminated, and the job ends rejected.
C15_AsStated == (timeout = "expired") ~> (ffmpeg = "killed" /\ outcome.state = "rejected")

\* the produced file is zero bytes, or its duration is missing or not positive
UnusableOutput ==
    /\ ffmpeg = "ended"
    /\ produced.size = "zero" \/ ZeroDuration(produced.duration)

\* C16 as stated: when the subprocess reports success but the produced file is
\* zero bytes or has a missing or non-positive duration, nothing is uploaded,
\* no record is saved and the job does not resolve.
C16_AsStated ==
    UnusableOutput =>
        /\ uploaded = <<>>
        /\ saved = <<>>
        /\ outcome.state # "resolved"

\* C17 as stated: the duration stored in a saved record is the measured
\* duration of the produced file, also when that differs from the sum of the
\* requested clip durations.
C17_AsStated ==
    \A k \in 1..Len(saved) :
        /\ saved[k].duration = produced.duration
        /\ saved[k].statsTotalDuration = produced.duration


\* the reference is a full remote URL: its text starts with "http://" or
\* "https://"
IsRemoteUrl(p) ==
    /\ ~p.abs
    /\ Len(p.parts) > 1
    /\ p.parts[1] \in {Name("http:"), Name("https:")}
    /\ p.parts[2] = Name("")

\* C31 as stated: for a stored reference that is a full remote URL the
\* resolver probes no local path, does not throw, and returns the reference
\* unchanged.
C31_AsStated ==
    IsRemoteUrl(filePath) =>
        /\ candidateIndex = 1
        /\ pathPc # "thrown"
        /\ pathPc = "returned" => resolvedPath = filePath

\* C23 as stated: once cancellation has been requested for a job whose
\* subprocess is running, the job enters none of the remaining pipeline states
\* (verifying, thumbnail, upload, persist), and when it has ended the
\* subprocess was terminated and the cleanup has run.
C23_AsStated ==
    cancelRequested =>
        /\ mergePc \notin {"probe", "thumbnail", "upload", "save"}
        /\ mergePc = "done" =>
              /\ ffmpeg \in {"killed", "failed"}
              /\ ~tempDir
              /\ ~outputFile
              /\ ~thumbFile

\* C37 as stated: a job that has rejected has persisted no record, also when
\* the removal of the temp directory or of the output file failed after the
\* save.
C37_AsStated == outcome.state = "rejected" => saved = <<>>

\* C38: the timer is set only by a subprocess that has started, it is pending
\* only while that subprocess runs (so its kill can reach no subprocess that
\* has ended or failed), a subprocess was killed only by the timer firing,
\* and a settled job has no pending timer.
C38_TimerOnlyWhileRunning ==
    /\ spawned = 0 => timeout = "unset"
    /\ timeout = "armed" => (ffmpeg = "running" /\ mergePc = "running")
    /\ ffmpeg \in {"ended", "failed", "killed"} => timeout # "armed"
    /\ ffmpeg = "killed" => timeout = "expired"
    /\ outcome.state # "pending" => timeout # "armed"

\* a job whose subprocess ended with its timer cleared has resolved
C38_Witness ==
    /\ spawned = 1
    /\ ffmpeg = "ended"
    /\ timeout = "cleared"
    /\ outcome = Resolved

\* as C38_Witness, for a subprocess that failed after it had started
C38_WitnessError ==
    /\ spawned = 1
    /\ ffmpeg = "failed"
    /\ timeout = "cleared"
    /\ outcome.state = "rejected"

\* the input the request's k-th clip stands for: the resolved file of its
\* source record, with the clip's own window
ExpectedInput(k) ==
    [input |-> resolveVideoPath(findById(mergeRequest[k].videoId).videoUrl, disk).path,
     ss |-> mergeRequest[k].startTime,
     to |-> mergeRequest[k].endTime]

\* C29: once the subprocess has been started, it has been started once, and
\* its inputs are the request's clips in request order, each with its own
\* startTime and endTime, whatever the order in which the lookups completed.
C29_InputsInRequestOrder ==
    spawned > 0 =>
        /\ spawned = 1
        /\ Len(CommandInputs(clipDetails)) = Len(mergeRequest)
        /\ \A k \in 1..Len(mergeRequest) : CommandInputs(clipDetails)[k] = ExpectedInput(k)

\* the subprocess runs on two different clips whose lookups completed in the
\* reverse of the request order
C29_Witness ==
    /\ spawned = 1
    /\ Len(mergeRequest) = 2
    /\ lookupOrder[1] = 2
    /\ lookupOrder[2] = 1
    /\ ExpectedInput(1) # ExpectedInput(2)
    /\ mergeRequest[1].videoId # mergeRequest[2].videoId

\* the thumbnail step is over and no thumbnail of the job was stored
ThumbnailFailed ==
    /\ thumbnailUrl # "unset"
    /\ \A k \in 1..Len(uploaded) : uploaded[k] # "thumb"

\* the thumbnail of the request's first clip as its source record has it, ""
\* when the record has none
ExistingThumbnail ==
    IF findById(mergeRequest[1].videoId).thumbnailUrl = "undefined" THEN ""
    ELSE findById(mergeRequest[1].videoId).thumbnailUrl

\* C30: after a failed thumbnail extraction or thumbnail upload the job goes
\* on to the upload and the save (it is rejected only by a failure of those
\* or of the cleanup),
\* and the thumbnailUrl it keeps and saves is the first clip's existing
\* thumbnail, or empty when the clip has none.
C30_ThumbnailFailureTolerated ==
    ThumbnailFailed =>
        /\ mergePc \in {"upload", "save", "done"}
        /\ outcome.state = "rejected" =>
              outcome.reason \in {"upload failed", "save failed", "cleanup failed"}
        /\ thumbnailUrl = ExistingThumbnail
        /\ \A k \in 1..Len(saved) : saved[k].thumbnailUrl = ExistingThumbnail

\* a job whose thumbnail step failed resolved with a record carrying the
\* first clip's own thumbnail
C30_Witness ==
    /\ ThumbnailFailed
    /\ outcome = Resolved
    /\ Len(saved) = 1
    /\ saved[1].thumbnailUrl = "thumbnails/abc.jpg"

\* as C30_Witness, for a first clip whose source record has no thumbnail
C30_WitnessEmpty ==
    /\ ThumbnailFailed
    /\ outcome = Resolved
    /\ Len(saved) = 1
    /\ saved[1].thumbnailUrl = ""


-----------------------------------------------------------------------------
(* videoMergeClips.js: merge jobs running concurrently *)

\* the values uuidv4 can return, and the users asking for merges
JobIds == {"id1", "id2", "id3"}

Users == {"u1", "u2"}

\* a name made of a fixed prefix, a job id and an extension: `merged_${jobId}.mp4`
JobName(prefix, id, ext) == [prefix |-> prefix, id |-> id, ext |-> ext]

\* the settings of TEMP_DIR and OUTPUT_DIR: unset, set apart, set to one directory
SampleEnvs ==
    { [TEMP_DIR |-> "undefined", OUTPUT_DIR |-> "undefined"],
      [TEMP_DIR |-> "/data/tmp", OUTPUT_DIR |-> "/data/out"],
      [TEMP_DIR |-> "/data", OUTPUT_DIR |-> "/data"] }

\* uuidv4(): an id that no earlier call returned
uuidv4(given) == JobIds \ given

\* path.join(process.env.TEMP_DIR || path.join(__dirname, '../../../tmp'), jobId)
jobTempDir(e, jobId) ==
    << JobName(IF e.TEMP_DIR = "undefined" THEN "/app/tmp" ELSE e.TEMP_DIR, "", ""),
       JobName("", jobId, "") >>

\* process.env.OUTPUT_DIR || path.join(__dirname, '../../../output')
jobOutputDir(e) ==
    << JobName(IF e.OUTPUT_DIR = "undefined" THEN "/app/output" ELSE e.OUTPUT_DIR, "", "") >>

outputPath_NoJobId(outputDir, jobId) == Append(outputDir, JobName("merged", "", ".mp4"))

\* path.join(outputDir, `merged_${jobId}.mp4`)
outputPath(outputDir, jobId) == Append(outputDir, JobName("merged_", jobId, ".mp4"))

\* path.join(outputDir, `thumb_${jobId}.jpg`)
thumbPath(outputDir, jobId) == Append(outputDir, JobName("thumb_", jobId, ".jpg"))

\* `merged-videos/${user.id}/thumbs/thumb_${jobId}.jpg`
thumbKey(user, jobId) ==
    << JobName("merged-videos", "", ""), JobName(user, "", ""), JobName("thumbs", "", ""),
       JobName("thumb_", jobId, ".jpg") >>

\* `merged-videos/${user.id}/merged_${jobId}.mp4`
s3Key(user, jobId) ==
    << JobName("merged-videos", "", ""), JobName(user, "", ""),
       JobName("merged_", jobId, ".mp4") >>

\* whether path p is dir or lies under it
Under(dir, p) == Len(p) >= Len(dir) /\ SubSeq(p, 1, Len(dir)) = dir

\* fs.rmSync(dir, { recursive: true, force: true })
rmSync(d, dir) == {p \in d : ~Under(dir, p)}

\* fs.unlinkSync(p)
unlinkSync(d, p) == d \ {p}

\* uploadToS3(file, key, ...): the object at key is written, replacing any
putObject(b, key, j) == {o \in b : o.key # key} \cup {[key |-> key, by |-> j]}

GivenIds == {jobs[j].jobId : j \in Jobs} \ {"none"}

JobsInit ==
    /\ ChunkIdle
    /\ ValidateIdle
    /\ RetryIdle
    /\ GenIdle
    /\ PathIdle
    /\ MergeIdle
    /\ env \in SampleEnvs
    /\ jobs = [j \in Jobs |-> [NoJob EXCEPT !.pc = "new"]]
    /\ jobDisk = {}
    /\ bucket = {}

\* lines 125-135: the job takes its id and makes its temp directory and the
\* output directory
JobStarts(j) ==
    /\ jobs[j].pc = "new"
    /\ \E id \in uuidv4(GivenIds), user \in Users :
          /\ jobs' = [jobs EXCEPT ![j] = [pc |-> "merging", jobId |-> id, user |-> user,
                                          owns |-> {jobTempDir(env, id)}, keys |-> {}]]
          /\ jobDisk' = jobDisk \cup {jobTempDir(env, id), jobOutputDir(env)}
    /\ UNCHANGED <<env, bucket, chunkVars, validateVars, retryVars, genVars,
                   pathVars, mergeVars>>

\* lines 137-163, 205, 228 and 239-243: a lookup, the subprocess, the upload or the save
\* fails; the job rejects and removes nothing
JobRejects(j) ==
    /\ jobs[j].pc \in {"merging", "uploading", "saving"}
    /\ jobs' = [jobs EXCEPT ![j].pc = "rejected"]
    /\ UNCHANGED <<env, jobDisk, bucket, chunkVars, validateVars, retryVars, genVars,
                   pathVars, mergeVars>>

\* lines 165-181 and 244: the subprocess has written the file at outputPath
JobMerged(j) ==
    /\ jobs[j].pc = "merging"
    /\ jobDisk' = jobDisk \cup {outputPath(jobOutputDir(env), jobs[j].jobId)}
    /\ jobs' = [jobs EXCEPT ![j].pc = "thumbnail",
                            ![j].owns = @ \cup {outputPath(jobOutputDir(env), jobs[j].jobId)}]
    /\ UNCHANGED <<env, bucket, chunkVars, validateVars, retryVars, genVars,
                   pathVars, mergeVars>>

\* lines 198-199: generateThumbnail writes the file at thumbPath, or fails
JobThumbnailGenerated(j) ==
    /\ jobs[j].pc = "thumbnail"
    /\ \E generated \in BOOLEAN :
          IF generated
          THEN /\ jobDisk' = jobDisk \cup {thumbPath(jobOutputDir(env), jobs[j].jobId)}
               /\ jobs' = [jobs EXCEPT ![j].pc = "thumbUpload",
                                       ![j].owns = @ \cup {thumbPath(jobOutputDir(env), jobs[j].jobId)}]
          ELSE /\ jobDisk' = jobDisk
               /\ jobs' = [jobs EXCEPT ![j].pc = "uploading"]
    /\ UNCHANGED <<env, bucket, chunkVars, validateVars, retryVars, genVars,
                   pathVars, mergeVars>>

\* lines 200-202: the thumbnail is put at its key, or the upload fails; the
\* file at thumbPath is unlinked when it exists
JobThumbnailUploaded(j) ==
    /\ jobs[j].pc = "thumbUpload"
    /\ \E stored \in BOOLEAN :
          IF stored
          THEN /\ bucket' = putObject(bucket, thumbKey(jobs[j].user, jobs[j].jobId), j)
               /\ jobs' = [jobs EXCEPT ![j].pc = "uploading",
                                       ![j].keys = @ \cup {thumbKey(jobs[j].user, jobs[j].jobId)},
                                       ![j].owns = @ \ {thumbPath(jobOutputDir(env), jobs[j].jobId)}]
          ELSE /\ bucket' = bucket
               /\ jobs' = [jobs EXCEPT ![j].pc = "uploading",
                                       ![j].owns = @ \ {thumbPath(jobOutputDir(env), jobs[j].jobId)}]
    /\ jobDisk' = unlinkSync(jobDisk, thumbPath(jobOutputDir(env), jobs[j].jobId))
    /\ UNCHANGED <<env, chunkVars, validateVars, retryVars, genVars,
                   pathVars, mergeVars>>

\* lines 204-205: the merged video is put at its key
JobUploaded(j) ==
    /\ jobs[j].pc = "uploading"
    /\ bucket' = putObject(bucket, s3Key(jobs[j].user, jobs[j].jobId), j)
    /\ jobs' = [jobs EXCEPT ![j].pc = "saving",
                            ![j].keys = @ \cup {s3Key(jobs[j].user, jobs[j].jobId)}]
    /\ UNCHANGED <<env, jobDisk, chunkVars, validateVars, retryVars, genVars,
                   pathVars, mergeVars>>

\* lines 228-231: the record is saved, the temp directory is removed with all
\* under it, the output file is unlinked, and the job resolves
JobSaved(j) ==
    /\ jobs[j].pc = "saving"
    /\ jobDisk' = unlinkSync(rmSync(jobDisk, jobTempDir(env, jobs[j].jobId)),
                             outputPath(jobOutputDir(env), jobs[j].jobId))
    /\ jobs' = [jobs EXCEPT ![j].pc = "resolved", ![j].owns = {}]
    /\ UNCHANGED <<env, bucket, chunkVars, validateVars, retryVars, genVars,
                   pathVars, mergeVars>>

JobsNext ==
    \/ \E j \in Jobs : JobStarts(j)
    \/ \E j \in Jobs : JobRejects(j)
    \/ \E j \in Jobs : JobMerged(j)
    \/ \E j \in Jobs : JobThumbnailGenerated(j)
    \/ \E j \in Jobs : JobThumbnailUploaded(j)
    \/ \E j \in Jobs : JobUploaded(j)
    \/ \E j \in Jobs : JobSaved(j)

SpecJobs == JobsInit /\ [][JobsNext]_vars

\* the job has taken its id
Started(j) == jobs[j].jobId # "none"

\* the paths and keys derived for a job
PathsOf(j) ==
    { jobTempDir(env, jobs[j].jobId),
      outputPath(jobOutputDir(env), jobs[j].jobId),
      thumbPath(jobOutputDir(env), jobs[j].jobId) }

KeysOf(j) == { thumbKey(jobs[j].user, jobs[j].jobId), s3Key(jobs[j].user, jobs[j].jobId) }

\* C22: two merge jobs never share a temp directory, an output path, a
\* thumbnail path or a storage key, none of one job's paths lies under the
\* other's temp directory, every file a job has made and not yet removed
\* itself is still on disk, and every object a job has put is still its own.
C22_JobsShareNothing ==
    /\ \A a, b \in Jobs :
          (a # b /\ Started(a) /\ Started(b)) =>
              /\ PathsOf(a) \cap PathsOf(b) = {}
              /\ KeysOf(a) \cap KeysOf(b) = {}
              /\ \A p \in PathsOf(b) : ~Under(jobTempDir(env, jobs[a].jobId), p)
    /\ \A a \in Jobs :
          /\ jobs[a].owns \subseteq jobDisk
          /\ \A k \in jobs[a].keys : [key |-> k, by |-> a] \in bucket

\* one job of a user has resolved and removed its files while another job of
\* the same user, in the same directories, still has its output file on disk
\* and its thumbnail in storage
C22_Witness ==
    /\ env.TEMP_DIR = "/data"
    /\ jobs[1].pc = "resolved"
    /\ jobs[2].pc = "uploading"
    /\ jobs[1].user = jobs[2].user
    /\ outputPath(jobOutputDir(env), jobs[2].jobId) \in jobDisk
    /\ thumbKey(jobs[2].user, jobs[2].jobId) \in jobs[2].keys
    /\ Cardinality(bucket) = 3

====
